---- MODULE Spec2Model ----
(***************************************************************************)
(* Model of the fractalaw micro-app host runtime (crates/fractalaw-host),   *)
(* of the DuckDB table store it bridges to (crates/fractalaw-store), of    *)
(* the sort keys of fractalaw-core and of the drrp-polisher guest.         *)
(*                                                                         *)
(* Specifications:                                                         *)
(*   Spec      one call of run_component: engine, module, ticker, guest,   *)
(*             teardown.  The guest is an arbitrary program: any sequence  *)
(*             of instructions, capability calls, a return or a trap.      *)
(*   SpecHost  a caller that owns a HostState (and its DuckStore) and      *)
(*             calls the capability implementations directly, as the unit  *)
(*             tests of the host crate do.                                 *)
(*   SpecCodec encode_ipc and decode_ipc applied to sequences of batches.  *)
(*   SpecLoop  run_component with a guest that only loops, under weak      *)
(*             fairness of run_component's steps.                          *)
(*   SpecWait  run_component with an inference service that may never      *)
(*             answer, under weak fairness of run_component and the        *)
(*             ticker.                                                     *)
(*   SpecPool  concurrent calls of run_component and their engines.        *)
(*   SpecShare DuckStore values handed to concurrent executions.           *)
(*   SpecBoot  the persistent store of the command line across opens.      *)
(*   SpecGen   generate_impl from the answer of the service on.            *)
(*   SpecClock record_event under the wall clock.                          *)
(*   SpecKey   normalize_provision applied to pairs of provision numbers.  *)
(*   SpecPolish one run of the drrp-polisher guest over its two tables.    *)
(*   SpecInsert insert_impl over payloads in which a later batch fails.    *)
(*   SpecIpc   extract_i64 and extract_string of the guest applied to      *)
(*             streams and their truncations.                              *)
(***************************************************************************)
EXTENDS Integers, Sequences, FiniteSets, TLC

VARIABLES
    pc,          \* position in run_component, or "host" for a direct caller
    fuel,        \* run_component's fuel argument
    opts,        \* RunOptions handed to run_component
    state,       \* HostState held in the wasmtime Store
    store_fuel,  \* fuel left in the wasmtime Store
    epoch,       \* the engine's epoch counter
    ticker,      \* the spawned epoch task: "none", "running" or "aborted"
    inflight,    \* the HTTP request generate_impl is awaiting, <<>> if none
    http_sent,   \* requests handed to the external service so far
    cap_ret,     \* what the last capability call returned to its caller
    calls,       \* the record-event calls the guest has issued, in order
    executed,    \* guest instructions executed so far
    trapped,     \* <<>>, or <<class>> once the guest has trapped
    run_out,     \* <<>>, or <<output>> once the guest's run() has returned
    last,        \* the last direct call: its inputs, the store before, its effects
    ret,         \* what run_component returned, <<>> while it has not
    ticks,       \* the epoch-deadline-ticks the caller wants for the execution
    pending,     \* concurrent run_component calls that have not started yet
    engines,     \* engines alive, counted by the instance slots in use in each
    owner,       \* who owns each DuckStore value: the caller, an execution, nobody
    execs,       \* concurrent executions: position and attached DuckStore
    use,         \* the last operation issued on a DuckStore and who issued it
    disk,        \* the tables in the database file of the persistent store
    conn,        \* <<>>, or <<tables>> of the DuckStore opened on the file
    parquet,     \* the Parquet snapshot files of the data directory
    boot,        \* what the last open of the persistent store did
    clock,       \* the reading of the system's wall clock (chrono::Utc::now())
    guest        \* the drrp-polisher guest: its position, locals and counters

pool_vars == <<pending, engines>>
share_vars == <<owner, execs, use>>
boot_vars == <<disk, conn, parquet, boot>>
run_vars == <<pc, fuel, opts, state, store_fuel, epoch, ticker, inflight,
              http_sent, cap_ret, calls, executed, trapped, run_out, last, ret>>

vars == <<run_vars, ticks, pool_vars, share_vars, boot_vars, clock, guest>>

----------------------------------------------------------------------------
(* Bounds of the model *)

MaxFuel == 3
MaxAudit == 2
MaxRows == 3
MaxBatches == 2
MaxHttp == 1
MaxRuns == 17
MaxExecs == 2
MaxBody == 201
MaxClock == 2
MaxBase == 1000
MaxAnn == 3

(* Program constants *)

EpochDeadline == 100
TotalComponentInstances == 16
PrefixCap == 200

----------------------------------------------------------------------------
(* Option and Result values.  None is the empty sequence, Some(x) is <<x>>. *)

None == <<>>
Some(x) == <<x>>
Unwrap(o) == o[1]

Ok(v) == [ok |-> TRUE, val |-> v]
Err(c, m) == [ok |-> FALSE, code |-> c, message |-> m]

SeqsUpTo(S, n) == UNION {[1..k -> S] : k \in 0..n}

----------------------------------------------------------------------------
(* Row batches and the Arrow IPC stream.                                    *)
(* A batch is a schema tag and one column of values; a stream is a sequence *)
(* of messages: a schema message, record-batch messages, an end-of-stream   *)
(* marker.  A batch message carries no schema of its own: the reader gives  *)
(* it the schema of the stream.                                             *)

Schemas == {"S1", "S2"}
Cols == {<<10>>, <<10, 20>>}

(* The null value; the columns of the tables are declared NOT NULL *)
Null == 0

Batch(s, c) == [schema |-> s, col |-> c]
num_rows(batch) == Len(batch.col)

SchemaMsg(s) == [m |-> "schema", schema |-> s, col |-> <<>>]
BatchMsg(c) == [m |-> "batch", schema |-> "", col |-> c]
EosMsg == [m |-> "eos", schema |-> "", col |-> <<>>]
JunkMsg == [m |-> "junk", schema |-> "", col |-> <<>>]



RECURSIVE encode_batches(_, _)
encode_batches(schema, batches) ==
    IF batches = <<>> THEN [ok |-> TRUE, msgs |-> <<>>]
    ELSE IF Head(batches).schema # schema THEN [ok |-> FALSE, msgs |-> <<>>]
    ELSE LET rest == encode_batches(schema, Tail(batches))
         IN  IF rest.ok
             THEN [ok |-> TRUE, msgs |-> <<BatchMsg(Head(batches).col)>> \o rest.msgs]
             ELSE rest

(* encode_ipc: no batches give no bytes; otherwise the schema of the first  *)
(* batch, every batch, the end-of-stream marker.                            *)
encode_ipc(batches) ==
    IF batches = <<>> THEN Ok(<<>>)
    ELSE LET schema == batches[1].schema
             body == encode_batches(schema, batches)
         IN  IF body.ok
             THEN Ok(<<SchemaMsg(schema)>> \o body.msgs \o <<EosMsg>>)
             ELSE Err(3, "batch schema differs from the stream schema")

(* The reader leaving out the batches that hold no row *)
RECURSIVE read_batches_skip_empty(_, _)
read_batches_skip_empty(schema, msgs) ==
    IF msgs = <<>> THEN Ok(<<>>)
    ELSE IF Head(msgs).m = "eos" THEN Ok(<<>>)
    ELSE IF Head(msgs).m = "batch"
         THEN LET rest == read_batches_skip_empty(schema, Tail(msgs))
              IN  IF ~rest.ok THEN rest
                  ELSE IF Head(msgs).col = <<>> THEN rest
                  ELSE Ok(<<Batch(schema, Head(msgs).col)>> \o rest.val)
    ELSE Err(2, "unexpected message in stream")

(* StreamReader's iteration: the end of the bytes or the end-of-stream      *)
(* marker ends the stream, a batch message yields a batch, anything else is *)
(* an error, and the first error is the result of the whole collect.        *)
RECURSIVE read_batches(_, _)
read_batches(schema, msgs) ==
    IF msgs = <<>> THEN Ok(<<>>)
    ELSE IF Head(msgs).m = "eos" THEN Ok(<<>>)
    ELSE IF Head(msgs).m = "batch"
         THEN LET rest == read_batches(schema, Tail(msgs))
              IN  IF rest.ok
                  THEN Ok(<<Batch(schema, Head(msgs).col)>> \o rest.val)
                  ELSE rest
    ELSE Err(2, "unexpected message in stream")

(* decode_ipc: no bytes give no batches; otherwise the first message must   *)
(* be the schema.                                                           *)
decode_ipc(data) ==
    IF data = <<>> THEN Ok(<<>>)
    ELSE IF Head(data).m # "schema" THEN Err(2, "expecting a schema message")
    ELSE read_batches(Head(data).schema, Tail(data))

(* The byte sequences a caller can pass: the encoding of every batch        *)
(* sequence of up to MaxBatches batches sharing one schema, and streams     *)
(* that are cut short, carry a foreign message or lack the schema.          *)
BatchSeqs == UNION {{[i \in 1..Len(cs) |-> Batch(s, cs[i])] : cs \in SeqsUpTo(Cols, MaxBatches)}
                    : s \in Schemas}
WellFormed == {encode_ipc(bs).val : bs \in BatchSeqs}
OtherStreams == {<<JunkMsg>>,
              <<BatchMsg(<<10>>)>>,
              <<SchemaMsg("S1"), EosMsg>>,
              <<SchemaMsg("S1"), BatchMsg(<<10>>)>>,
              <<SchemaMsg("S1"), JunkMsg>>,
              <<SchemaMsg("S1"), BatchMsg(<<10>>), JunkMsg>>,
              <<SchemaMsg("S1"), BatchMsg(<<10>>), SchemaMsg("S1")>>}
Payloads == WellFormed \cup OtherStreams

----------------------------------------------------------------------------
(* DuckStore: the tables of one DuckDB connection, a function from table    *)
(* names to [schema, col].  A table name is a sequence of characters.       *)

AsciiAlphanumeric ==
    {"a","b","c","d","e","f","g","h","i","j","k","l","m","n","o","p","q","r",
     "s","t","u","v","w","x","y","z",
     "A","B","C","D","E","F","G","H","I","J","K","L","M","N","O","P","Q","R",
     "S","T","U","V","W","X","Y","Z",
     "0","1","2","3","4","5","6","7","8","9"}

(* The table names a caller passes: the empty name, names of letters and    *)
(* underscores, and names with a character outside [A-Za-z0-9_] in front,   *)
(* in the middle and at the end.                                            *)
TableNames == {<<>>, <<"t">>, <<"t", "_">>, <<"u">>,
               <<";">>, <<"t", ";">>, <<";", "t">>, <<"t", "-", "t">>}

T == <<"t">>

(* SQL statements, by what DuckDB does with them *)
CreateTable(t, s) == [k |-> "create", t |-> t, schema |-> s, col |-> <<>>]
InsertValues(t, c) == [k |-> "insert", t |-> t, schema |-> "", col |-> c]
InsertParquet(t, b) == [k |-> "insert_parquet", t |-> t, schema |-> b.schema, col |-> b.col]
SelectAll(t) == [k |-> "select", t |-> t, schema |-> "", col |-> <<>>]
CountRows(t) == [k |-> "count", t |-> t, schema |-> "", col |-> <<>>]
DropTable(t) == [k |-> "drop", t |-> t, schema |-> "", col |-> <<>>]
BadSql == [k |-> "bad", t |-> <<>>, schema |-> "", col |-> <<>>]

Statements == {CreateTable(T, "S1"), InsertValues(T, <<10>>), SelectAll(T),
               CountRows(T), DropTable(T), BadSql}

Table(s, c) == [schema |-> s, col |-> c]
NoTables == <<>>
WithTable(tables, t, tab) == [n \in (DOMAIN tables) \cup {t} |-> IF n = t THEN tab ELSE tables[n]]
WithoutTable(tables, t) == [n \in (DOMAIN tables) \ {t} |-> tables[n]]

(* DuckDB running one statement on the connection: the tables afterwards    *)
(* and the batches of the result.                                           *)
SqlOk(tables, batches) == [ok |-> TRUE, tables |-> tables, batches |-> batches]
SqlErr(tables, m) == [ok |-> FALSE, tables |-> tables, batches |-> <<>>, message |-> m]

run_sql(tables, sql) ==
    CASE sql.k = "create" ->
           IF sql.t \in DOMAIN tables THEN SqlErr(tables, "table exists")
           ELSE SqlOk(WithTable(tables, sql.t, Table(sql.schema, <<>>)), <<>>)
      [] sql.k = "drop" ->
           IF sql.t \notin DOMAIN tables THEN SqlErr(tables, "no such table")
           ELSE SqlOk(WithoutTable(tables, sql.t), <<>>)
      [] sql.k = "insert" ->
           IF sql.t \notin DOMAIN tables THEN SqlErr(tables, "no such table")
           ELSE SqlOk(WithTable(tables, sql.t,
                        Table(tables[sql.t].schema, tables[sql.t].col \o sql.col)),
                      <<Batch("Count", <<Len(sql.col)>>)>>)
      [] sql.k = "insert_parquet" ->
           IF sql.t \notin DOMAIN tables THEN SqlErr(tables, "no such table")
           ELSE IF tables[sql.t].schema # sql.schema THEN SqlErr(tables, "schema mismatch")
           ELSE IF \E i \in 1..Len(sql.col) : sql.col[i] = Null
           THEN SqlErr(tables, "NOT NULL constraint failed")
           ELSE SqlOk(WithTable(tables, sql.t,
                        Table(tables[sql.t].schema, tables[sql.t].col \o sql.col)),
                      <<Batch("Count", <<Len(sql.col)>>)>>)
      [] sql.k = "select" ->
           IF sql.t \notin DOMAIN tables THEN SqlErr(tables, "no such table")
           ELSE IF tables[sql.t].col = <<>> THEN SqlOk(tables, <<>>)
           ELSE SqlOk(tables, <<Batch(tables[sql.t].schema, tables[sql.t].col)>>)
      [] sql.k = "count" ->
           IF sql.t \notin DOMAIN tables THEN SqlErr(tables, "no such table")
           ELSE SqlOk(tables, <<Batch("cnt", <<Len(tables[sql.t].col)>>)>>)
      [] OTHER -> SqlErr(tables, "syntax error")

(* DuckStore::execute and DuckStore::query_arrow *)
execute(tables, sql) == run_sql(tables, sql)
query_arrow(tables, sql) == run_sql(tables, sql)

(* DuckStore::count_table *)
count_table(tables, t) ==
    LET r == query_arrow(tables, CountRows(t))
    IN  IF r.ok THEN Ok(r.batches[1].col[1]) ELSE Err(2, r.message)

(* The identifier check with `any` in place of `all` *)
valid_table_name_any(table) ==
    \E i \in 1..Len(table) : table[i] \in AsciiAlphanumeric \/ table[i] = "_"

(* The identifier check of insert_batch: every character is ASCII           *)
(* alphanumeric or an underscore.                                           *)
valid_table_name(table) ==
    \A i \in 1..Len(table) : table[i] \in AsciiAlphanumeric \/ table[i] = "_"

(* DuckStore::insert_batch.  tmp counts the temporary Parquet files         *)
(* written, sqls the statements submitted to the connection.                *)
insert_batch(tables, table, batch) ==
    IF ~valid_table_name(table)
    THEN [ok |-> FALSE, tables |-> tables, tmp |-> 0, sqls |-> <<>>,
          message |-> "invalid table name"]
    ELSE LET sql == InsertParquet(table, batch)
             r == run_sql(tables, sql)
         IN  IF r.ok
             THEN [ok |-> TRUE, tables |-> r.tables, tmp |-> 1, sqls |-> <<sql>>,
                   message |-> ""]
             ELSE [ok |-> FALSE, tables |-> r.tables, tmp |-> 1, sqls |-> <<sql>>,
                   message |-> r.message]

----------------------------------------------------------------------------
(* HostState and the capability implementations.  A DuckStore takes &self   *)
(* and changes the connection behind it, so every implementation returns    *)
(* its result together with the tables it leaves.                           *)

HostState_new == [audit_entries |-> <<>>, duck |-> None, inference |-> None]
with_duck(st, store) == [st EXCEPT !.duck = Some(store)]
with_inference(st, config) == [st EXCEPT !.inference = Some(config)]

AuditEntries == {[event_type |-> k, resource |-> "r", detail |-> "d"]
                   : k \in {"app-started", "polish-error"}}

(* record_event putting the new record in front *)
record_event_front(st, entry, now) ==
    [st EXCEPT !.audit_entries =
        <<[event_type |-> entry.event_type, resource |-> entry.resource,
           detail |-> entry.detail, timestamp |-> now]>> \o @]

(* record_event: one record per call, stamped with the wall clock's reading *)
(* and appended at the end                                                  *)
record_event(st, entry, now) ==
    [st EXCEPT !.audit_entries =
        Append(@, [event_type |-> entry.event_type, resource |-> entry.resource,
                   detail |-> entry.detail, timestamp |-> now])]

CapRet(res, st) == [res |-> res, st |-> st, tmp |-> 0, sqls |-> <<>>]

(* query_impl reporting a missing store with the store-error code *)
query_impl_code2(st, sql) ==
    IF st.duck = None THEN CapRet(Err(2, "no DuckDB store attached"), st)
    ELSE LET r == query_arrow(Unwrap(st.duck), sql)
         IN  IF ~r.ok THEN CapRet(Err(2, r.message), with_duck(st, r.tables))
             ELSE CapRet(encode_ipc(r.batches), with_duck(st, r.tables))

(* query_impl: code 1 without a store, code 2 when the store rejects the    *)
(* statement, code 3 when the encoding fails, the bytes otherwise.          *)
query_impl(st, sql) ==
    IF st.duck = None THEN CapRet(Err(1, "no DuckDB store attached"), st)
    ELSE LET r == query_arrow(Unwrap(st.duck), sql)
         IN  IF ~r.ok THEN CapRet(Err(2, r.message), with_duck(st, r.tables))
             ELSE CapRet(encode_ipc(r.batches), with_duck(st, r.tables))

execute_impl(st, sql) ==
    IF st.duck = None THEN CapRet(Err(1, "no DuckDB store attached"), st)
    ELSE LET r == execute(Unwrap(st.duck), sql)
         IN  IF ~r.ok THEN CapRet(Err(2, r.message), with_duck(st, r.tables))
             ELSE CapRet(Ok(0), with_duck(st, r.tables))

(* The loop going on after a failed insert_batch *)
RECURSIVE insert_loop_swallow(_, _, _, _, _, _)
insert_loop_swallow(tables, table, batches, total_rows, tmp, sqls) ==
    IF batches = <<>>
    THEN [res |-> Ok(total_rows), tables |-> tables, tmp |-> tmp, sqls |-> sqls]
    ELSE LET r == insert_batch(tables, table, Head(batches))
         IN  insert_loop_swallow(r.tables, table, Tail(batches),
                 IF r.ok THEN total_rows + num_rows(Head(batches)) ELSE total_rows,
                 tmp + r.tmp, sqls \o r.sqls)

(* The loop counting batches instead of rows *)
RECURSIVE insert_loop_count_batches(_, _, _, _, _, _)
insert_loop_count_batches(tables, table, batches, total_rows, tmp, sqls) ==
    IF batches = <<>>
    THEN [res |-> Ok(total_rows), tables |-> tables, tmp |-> tmp, sqls |-> sqls]
    ELSE LET r == insert_batch(tables, table, Head(batches))
         IN  IF ~r.ok
             THEN [res |-> Err(3, r.message), tables |-> r.tables,
                   tmp |-> tmp + r.tmp, sqls |-> sqls \o r.sqls]
             ELSE insert_loop_count_batches(r.tables, table, Tail(batches),
                                            total_rows + 1, tmp + r.tmp, sqls \o r.sqls)

(* The loop of insert_impl over the decoded batches: the first failing      *)
(* insert_batch ends it with code 3, the batches before it stay inserted.   *)
RECURSIVE insert_loop(_, _, _, _, _, _)
insert_loop(tables, table, batches, total_rows, tmp, sqls) ==
    IF batches = <<>>
    THEN [res |-> Ok(total_rows), tables |-> tables, tmp |-> tmp, sqls |-> sqls]
    ELSE LET r == insert_batch(tables, table, Head(batches))
         IN  IF ~r.ok
             THEN [res |-> Err(3, r.message), tables |-> r.tables,
                   tmp |-> tmp + r.tmp, sqls |-> sqls \o r.sqls]
             ELSE insert_loop(r.tables, table, Tail(batches),
                              total_rows + num_rows(Head(batches)),
                              tmp + r.tmp, sqls \o r.sqls)

(* insert_impl decoding the payload before it looks for the store *)
insert_impl_decode_first(st, table, data) ==
    LET dec == decode_ipc(data)
    IN  IF ~dec.ok THEN CapRet(Err(2, "failed to decode Arrow IPC"), st)
        ELSE IF st.duck = None THEN CapRet(Err(1, "no DuckDB store attached"), st)
        ELSE LET r == insert_loop(Unwrap(st.duck), table, dec.val, 0, 0, <<>>)
             IN  [res |-> r.res, st |-> with_duck(st, r.tables),
                  tmp |-> r.tmp, sqls |-> r.sqls]

(* insert_impl undoing the batches already inserted when one fails *)
insert_impl_rollback(st, table, data) ==
    IF st.duck = None THEN CapRet(Err(1, "no DuckDB store attached"), st)
    ELSE LET dec == decode_ipc(data)
         IN  IF ~dec.ok THEN CapRet(Err(2, "failed to decode Arrow IPC"), st)
             ELSE LET r == insert_loop(Unwrap(st.duck), table, dec.val, 0, 0, <<>>)
                  IN  [res |-> r.res, st |-> IF r.res.ok THEN with_duck(st, r.tables) ELSE st,
                       tmp |-> r.tmp, sqls |-> r.sqls]

insert_impl(st, table, data) ==
    IF st.duck = None THEN CapRet(Err(1, "no DuckDB store attached"), st)
    ELSE LET dec == decode_ipc(data)
         IN  IF ~dec.ok THEN CapRet(Err(2, "failed to decode Arrow IPC"), st)
             ELSE LET r == insert_loop(Unwrap(st.duck), table, dec.val, 0, 0, <<>>)
                  IN  [res |-> r.res, st |-> with_duck(st, r.tables),
                       tmp |-> r.tmp, sqls |-> r.sqls]

(* generate_impl up to the send: without a config no request leaves;        *)
(* otherwise the request body, with the system prompt if there is one and   *)
(* the temperature if it is positive.                                       *)
Requests == {[system_prompt |-> None, user_prompt |-> "p", max_tokens |-> 8, temperature |-> 0],
             [system_prompt |-> Some("s"), user_prompt |-> "p", max_tokens |-> 8, temperature |-> 1]}

generate_body(config, request) ==
    [model |-> config.model, max_tokens |-> request.max_tokens,
     content |-> request.user_prompt, system |-> request.system_prompt,
     temperature |-> IF request.temperature > 0 THEN Some(request.temperature) ELSE None]

(* generate_impl sending with a default config when none is attached *)
generate_send_unchecked(st, request) ==
    [sent |-> TRUE,
     body |-> Some(generate_body([api_key |-> "", model |-> "default"], request)),
     res |-> Ok(0)]

generate_send(st, request) ==
    IF st.inference = None
    THEN [sent |-> FALSE, body |-> None,
          res |-> Err(1, "no inference backend configured (set ANTHROPIC_API_KEY)")]
    ELSE [sent |-> TRUE, body |-> Some(generate_body(Unwrap(st.inference), request)),
          res |-> Ok(0)]

(* What the external service can answer: whether the send and the read of   *)
(* the body succeed, the status, the text of the body, whether that text is *)
(* JSON, whether it has content[0].text and usage.output_tokens.            *)
Response(send, read, status, body, json, text, tokens) ==
    [send |-> send, read |-> read, status |-> status, body |-> body,
     json |-> json, text |-> text, tokens |-> tokens]

Responses ==
    {Response(FALSE, FALSE, 0, "", FALSE, None, None),
     Response(TRUE, FALSE, 200, "", FALSE, None, None),
     Response(TRUE, TRUE, 500, "e", TRUE, None, None),
     Response(TRUE, TRUE, 200, "x", FALSE, None, None),
     Response(TRUE, TRUE, 200, "{}", TRUE, None, Some(5)),
     Response(TRUE, TRUE, 200, "{}", TRUE, Some("x"), None),
     Response(TRUE, TRUE, 200, "{}", TRUE, Some("x"), Some(5))}

is_success(status) == status >= 200 /\ status <= 299

(* Display of a StatusCode: the number and its canonical reason *)
StatusText(status) ==
    CASE status = 200 -> "200 OK"
      [] status = 204 -> "204 No Content"
      [] status = 400 -> "400 Bad Request"
      [] status = 500 -> "500 Internal Server Error"
      [] OTHER -> "0"

(* &resp_text[..resp_text.len().min(200)] *)
body_prefix(resp_text) ==
    SubSeq(resp_text, 1, IF Len(resp_text) < PrefixCap THEN Len(resp_text) ELSE PrefixCap)

(* generate_impl from the answer on *)
generate_recv(resp) ==
    IF ~resp.send THEN Err(2, "HTTP request failed")
    ELSE IF ~resp.read THEN Err(2, "failed to read response body")
    ELSE IF ~is_success(resp.status)
    THEN Err(2, "Claude API error (" \o StatusText(resp.status) \o "): " \o resp.body)
    ELSE IF ~resp.json THEN Err(3, "failed to parse response JSON")
    ELSE IF resp.text = None
    THEN Err(3, "unexpected response structure (no content[0].text): "
                    \o body_prefix(resp.body))
    ELSE Ok([text |-> Unwrap(resp.text),
             tokens_used |-> IF resp.tokens = None THEN 0 ELSE Unwrap(resp.tokens),
             confidence |-> 1])

----------------------------------------------------------------------------
(* Initial states *)

Config == [api_key |-> "k", model |-> "m"]

(* The stores a caller can hand over: freshly opened, or with table t *)
InitStores == {NoTables, WithTable(NoTables, T, Table("S1", <<>>)),
               WithTable(NoTables, T, Table("S1", <<10>>))}

NoCall == [op |-> "none"]
NoRet == [op |-> "none", res |-> Ok(0)]

Quiet ==
    /\ store_fuel = 0 /\ epoch = 0 /\ ticker = "none" /\ inflight = None
    /\ http_sent = 0 /\ cap_ret = NoRet /\ calls = <<>> /\ executed = 0
    /\ trapped = None /\ run_out = None /\ last = NoCall /\ ret = None

(* No concurrent executions, no shared DuckStore, no persistent store *)
PoolIdle == pending = 0 /\ engines = [k \in 0..1 |-> 0]
ShareIdle == owner = <<>> /\ execs = <<>> /\ use = NoCall
BootIdle == disk = NoTables /\ conn = None /\ parquet = <<>> /\ boot = NoCall
EnvIdle == clock = 0 /\ guest = NoCall

(* Before run_component is called.  It takes no tick count: the caller can  *)
(* only want the one it sets.                                               *)
Init ==
    /\ ticks = EpochDeadline
    /\ PoolIdle /\ ShareIdle /\ BootIdle /\ EnvIdle
    /\ pc = "start"
    /\ fuel \in 0..MaxFuel
    /\ opts \in [duck : {None} \cup {Some(d) : d \in InitStores},
                 inference : {None, Some(Config)}]
    /\ state = HostState_new
    /\ Quiet

(* A caller holding a HostState of its own *)
InitHost ==
    /\ ticks = EpochDeadline
    /\ PoolIdle /\ ShareIdle /\ BootIdle /\ EnvIdle
    /\ pc = "host"
    /\ fuel = 0
    /\ opts = [duck |-> None, inference |-> None]
    /\ state \in [audit_entries : {<<>>},
                  duck : {None} \cup {Some(d) : d \in InitStores},
                  inference : {None}]
    /\ Quiet

----------------------------------------------------------------------------
(* Capability calls.  The guest makes them while run() executes and pays    *)
(* fuel for the instruction that makes the call; a direct caller makes them *)
(* on its own HostState.                                                    *)

CanCall == pc \in {"running", "host"} /\ inflight = None /\ trapped = None

(* An engine that does not meter fuel *)
Charge_unmetered ==
    IF pc = "running"
    THEN store_fuel > 0 /\ UNCHANGED <<store_fuel, executed>>
    ELSE UNCHANGED <<store_fuel, executed>>

(* consume_fuel(true): every guest instruction takes fuel from the Store,   *)
(* and none executes once the fuel is gone.                                 *)
Charge ==
    IF pc = "running"
    THEN /\ store_fuel > 0
         /\ store_fuel' = store_fuel - 1
         /\ executed' = executed + 1
    ELSE UNCHANGED <<store_fuel, executed>>

RowsBounded(st) ==
    IF st.duck = None THEN TRUE
    ELSE \A n \in DOMAIN Unwrap(st.duck) : Len(Unwrap(st.duck)[n].col) <= MaxRows

(* A direct caller keeps the inputs of its call and the store before it *)
Note(call) == IF pc = "host" THEN call ELSE NoCall

RecordEvent(entries) ==
    \E entry \in entries :
        /\ CanCall /\ Charge
        /\ Len(state.audit_entries) < MaxAudit
        /\ state' = record_event(state, entry, clock)
        /\ calls' = Append(calls, entry)
        /\ cap_ret' = [op |-> "record_event", res |-> Ok(0)]
        /\ UNCHANGED <<pc, fuel, opts, clock, guest, ticks, pool_vars, share_vars, boot_vars, epoch, ticker, inflight, http_sent, trapped, run_out, last, ret>>

Query(statements) ==
    \E sql \in statements :
        \E r \in {query_impl(state, sql)} :
        /\ CanCall /\ Charge
        /\ RowsBounded(r.st)
        /\ state' = r.st
        /\ cap_ret' = [op |-> "query", res |-> r.res]
        /\ last' = Note([op |-> "query", sql |-> sql, before |-> state])
        /\ UNCHANGED <<pc, fuel, opts, clock, guest, ticks, pool_vars, share_vars, boot_vars, epoch, ticker, inflight, http_sent, calls, trapped, run_out, ret>>

Execute(statements) ==
    \E sql \in statements :
        \E r \in {execute_impl(state, sql)} :
        /\ CanCall /\ Charge
        /\ RowsBounded(r.st)
        /\ state' = r.st
        /\ cap_ret' = [op |-> "execute", res |-> r.res]
        /\ last' = Note([op |-> "execute", sql |-> sql, before |-> state])
        /\ UNCHANGED <<pc, fuel, opts, clock, guest, ticks, pool_vars, share_vars, boot_vars, epoch, ticker, inflight, http_sent, calls, trapped, run_out, ret>>

Insert(tables, payloads) ==
    \E table \in tables, data \in payloads :
        \E r \in {insert_impl(state, table, data)} :
        /\ CanCall /\ Charge
        /\ RowsBounded(r.st)
        /\ state' = r.st
        /\ cap_ret' = [op |-> "insert", res |-> r.res]
        /\ last' = Note([op |-> "insert", table |-> table, data |-> data,
                         before |-> state, tmp |-> r.tmp, sqls |-> r.sqls])
        /\ UNCHANGED <<pc, fuel, opts, clock, guest, ticks, pool_vars, share_vars, boot_vars, epoch, ticker, inflight, http_sent, calls, trapped, run_out, ret>>

(* generate: without a config the call returns at once; with one the        *)
(* request is sent and the caller is suspended until the answer.            *)
GenerateSend ==
    \E request \in Requests :
        LET r == generate_send(state, request) IN
        /\ CanCall /\ Charge
        /\ http_sent < MaxHttp
        /\ IF r.sent
           THEN /\ inflight' = r.body
                /\ http_sent' = http_sent + 1
                /\ cap_ret' = [op |-> "generate_pending", res |-> Ok(0)]
           ELSE /\ UNCHANGED <<inflight, http_sent>>
                /\ cap_ret' = [op |-> "generate", res |-> r.res]
        /\ UNCHANGED <<pc, fuel, opts, clock, guest, ticks, pool_vars, share_vars, boot_vars, state, epoch, ticker, calls, trapped, run_out, last, ret>>

GenerateRecv ==
    \E resp \in Responses :
        /\ pc \in {"running", "host"} /\ inflight # None
        /\ inflight' = None
        /\ cap_ret' = [op |-> "generate", res |-> generate_recv(resp)]
        /\ UNCHANGED <<pc, fuel, opts, clock, guest, ticks, pool_vars, share_vars, boot_vars, state, store_fuel, epoch, ticker, http_sent,
                       calls, executed, trapped, run_out, last, ret>>

----------------------------------------------------------------------------
(* A caller that owns a HostState with a DuckStore: the data capabilities   *)
(* and the store's own insert_batch, called directly.                       *)

HostQuery == pc = "host" /\ Query(Statements)
HostExecute == pc = "host" /\ Execute(Statements)
HostInsert == pc = "host" /\ Insert(TableNames, Payloads)

StoreInsertBatch ==
    \E table \in TableNames, s \in Schemas, c \in Cols :
        /\ pc = "host" /\ inflight = None /\ state.duck # None
        /\ \E r \in {insert_batch(Unwrap(state.duck), table, Batch(s, c))} :
             /\ RowsBounded(with_duck(state, r.tables))
             /\ state' = with_duck(state, r.tables)
             /\ cap_ret' = [op |-> "insert_batch",
                            res |-> IF r.ok THEN Ok(0) ELSE Err(0, r.message)]
             /\ last' = [op |-> "insert_batch", table |-> table, batch |-> Batch(s, c),
                         before |-> state, tmp |-> r.tmp, sqls |-> r.sqls]
        /\ UNCHANGED <<pc, fuel, opts, clock, guest, ticks, pool_vars, share_vars, boot_vars, store_fuel, epoch, ticker, inflight, http_sent,
                       calls, executed, trapped, run_out, ret>>

NextHost ==
    \/ HostQuery
    \/ HostExecute
    \/ HostInsert
    \/ StoreInsertBatch

SpecHost == InitHost /\ [][NextHost]_vars

----------------------------------------------------------------------------
(* The codec on its own: a sequence of batches is encoded, and the bytes    *)
(* are decoded again.  The batches are of any schema and of zero, one or    *)
(* two rows.                                                                *)

CodecBatches == {Batch(s, c) : s \in Schemas, c \in Cols \cup {<<>>}}

InitCodec ==
    /\ ticks = EpochDeadline
    /\ PoolIdle /\ ShareIdle /\ BootIdle /\ EnvIdle
    /\ pc = "codec"
    /\ fuel = 0
    /\ opts = [duck |-> None, inference |-> None]
    /\ state = HostState_new
    /\ store_fuel = 0 /\ epoch = 0 /\ ticker = "none" /\ inflight = None
    /\ http_sent = 0 /\ cap_ret = NoRet /\ calls = <<>> /\ executed = 0
    /\ trapped = None /\ run_out = None /\ ret = None
    /\ \E bs \in SeqsUpTo(CodecBatches, MaxBatches) :
         last = [op |-> "batches", batches |-> bs]

CodecEncode ==
    /\ pc = "codec" /\ last.op = "batches"
    /\ last' = [op |-> "encoded", batches |-> last.batches,
                res |-> encode_ipc(last.batches)]
    /\ UNCHANGED <<pc, fuel, opts, clock, guest, ticks, pool_vars, share_vars, boot_vars, state, store_fuel, epoch, ticker, inflight,
                   http_sent, cap_ret, calls, executed, trapped, run_out, ret>>

CodecDecode ==
    /\ pc = "codec" /\ last.op = "encoded" /\ last.res.ok
    /\ last' = [op |-> "decoded", batches |-> last.batches, data |-> last.res.val,
                res |-> decode_ipc(last.res.val)]
    /\ UNCHANGED <<pc, fuel, opts, clock, guest, ticks, pool_vars, share_vars, boot_vars, state, store_fuel, epoch, ticker, inflight,
                   http_sent, cap_ret, calls, executed, trapped, run_out, ret>>

NextCodec ==
    \/ CodecEncode
    \/ CodecDecode

SpecCodec == InitCodec /\ [][NextCodec]_vars

----------------------------------------------------------------------------
(* generate_impl from the answer on, over the answers of the service: every *)
(* outcome of the send, of the read and of the parse, with bodies shorter   *)
(* and longer than the prefix kept in a message.                            *)

RECURSIVE Repeat(_, _)
Repeat(c, n) ==
    IF n = 0 THEN ""
    ELSE IF n % 2 = 1 THEN Repeat(c, n - 1) \o c
    ELSE Repeat(c, n \div 2) \o Repeat(c, n \div 2)

Statuses == {200, 204, 400, 500}
Bodies == {Repeat("x", n) : n \in {1, 2, PrefixCap - 1, PrefixCap, MaxBody}}

GenResponses ==
    {Response(FALSE, FALSE, 0, "", FALSE, None, None)}
    \cup {Response(TRUE, FALSE, st, "", FALSE, None, None) : st \in Statuses}
    \cup {Response(TRUE, TRUE, st, "", FALSE, None, None) : st \in Statuses}
    \cup {Response(TRUE, TRUE, st, b, FALSE, None, None) : st \in Statuses, b \in Bodies}
    \cup {Response(TRUE, TRUE, st, b, TRUE, tx, tk) :
              st \in Statuses, b \in Bodies,
              tx \in {None, Some("x")}, tk \in {None, Some(5)}}

InitGen ==
    /\ pc = "gen" /\ fuel = 0 /\ opts = [duck |-> None, inference |-> Some(Config)]
    /\ state = with_inference(HostState_new, Config)
    /\ store_fuel = 0 /\ epoch = 0 /\ ticker = "none"
    /\ \E request \in Requests : inflight = Some(generate_body(Config, request))
    /\ http_sent = 1
    /\ cap_ret = [op |-> "generate_pending", res |-> Ok(0)]
    /\ calls = <<>> /\ executed = 0 /\ trapped = None /\ run_out = None
    /\ last = NoCall /\ ret = None
    /\ ticks = EpochDeadline /\ PoolIdle /\ ShareIdle /\ BootIdle /\ EnvIdle

GenAnswer ==
    \E resp \in GenResponses :
        /\ pc = "gen" /\ inflight # None
        /\ inflight' = None
        /\ cap_ret' = [op |-> "generate", res |-> generate_recv(resp)]
        /\ last' = [op |-> "response", resp |-> resp]
        /\ UNCHANGED <<pc, fuel, opts, clock, guest, ticks, pool_vars, share_vars, boot_vars, state, store_fuel, epoch, ticker,
                       http_sent, calls, executed, trapped, run_out, ret>>

NextGen == GenAnswer

SpecGen == InitGen /\ [][NextGen]_vars

----------------------------------------------------------------------------
(* run_component.                                                           *)

RunResult(output, audit_entries, fuel_consumed) ==
    [output |-> output, audit_entries |-> audit_entries, fuel_consumed |-> fuel_consumed]

(* The fuel left taken for the fuel consumed *)
saturating_sub_left(a, b) == b

saturating_sub(a, b) == IF a >= b THEN a - b ELSE 0

(* An early return through `?`: the error goes to the caller, and nothing   *)
(* after the failing line runs.                                             *)
ReturnErr(what) ==
    /\ ret' = Some(Err(0, what))
    /\ pc' = "done"

(* create_engine()? *)
CreateEngine ==
    /\ pc = "start"
    /\ \E ok \in BOOLEAN :
         IF ok THEN pc' = "engine" /\ UNCHANGED ret
         ELSE ReturnErr("engine")
    /\ UNCHANGED <<fuel, opts, clock, guest, ticks, pool_vars, share_vars, boot_vars, state, store_fuel, epoch, ticker, inflight, http_sent,
                   cap_ret, calls, executed, trapped, run_out, last>>

(* run_component spawning the epoch task before it loads the component *)
LoadComponent_after_spawn ==
    /\ pc = "engine"
    /\ \E ok \in BOOLEAN :
         IF ok THEN pc' = "loaded" /\ UNCHANGED ret
         ELSE ReturnErr("load")
    /\ ticker' = "running"
    /\ UNCHANGED <<fuel, opts, clock, guest, ticks, pool_vars, share_vars, boot_vars, state, store_fuel,
                   epoch, inflight, http_sent, cap_ret, calls, executed, trapped,
                   run_out, last>>

(* load_component(&engine, wasm_path).await? *)
LoadComponent ==
    /\ pc = "engine"
    /\ \E ok \in BOOLEAN :
         IF ok THEN pc' = "loaded" /\ UNCHANGED ret
         ELSE ReturnErr("load")
    /\ UNCHANGED <<fuel, opts, clock, guest, ticks, pool_vars, share_vars, boot_vars, state, store_fuel, epoch, ticker, inflight, http_sent,
                   cap_ret, calls, executed, trapped, run_out, last>>

(* The HostState run_component builds from its options *)
build_state(o) ==
    LET s0 == HostState_new
        s1 == IF o.duck # None THEN with_duck(s0, Unwrap(o.duck)) ELSE s0
    IN  IF o.inference # None THEN with_inference(s1, Unwrap(o.inference)) ELSE s1

(* create_linker()?, the HostState, Store::new, set_fuel, set_epoch_deadline *)
(* and the spawn of the epoch task: no await in between.                    *)
Setup ==
    /\ pc = "loaded"
    /\ \E ok \in BOOLEAN :
         IF ok
         THEN /\ state' = build_state(opts)
              /\ store_fuel' = fuel
              /\ ticker' = "running"
              /\ pc' = "spawned"
              /\ UNCHANGED ret
         ELSE /\ ReturnErr("linker")
              /\ UNCHANGED <<state, store_fuel, ticker>>
    /\ UNCHANGED <<fuel, opts, clock, guest, ticks, pool_vars, share_vars, boot_vars, epoch, inflight, http_sent, cap_ret, calls, executed,
                   trapped, run_out, last>>

(* The spawned task: interval.tick().await; increment_epoch().  Nothing     *)
(* reads the epoch beyond the deadline, so the count stops there.           *)
Tick ==
    /\ ticker = "running"
    /\ epoch < EpochDeadline
    /\ epoch' = epoch + 1
    /\ UNCHANGED <<pc, fuel, opts, clock, guest, ticks, pool_vars, share_vars, boot_vars, state, store_fuel, ticker, inflight, http_sent,
                   cap_ret, calls, executed, trapped, run_out, last, ret>>

(* MicroApp::instantiate_async(...).await? *)
Instantiate ==
    /\ pc = "spawned"
    /\ \E ok \in BOOLEAN :
         IF ok THEN pc' = "running" /\ UNCHANGED ret
         ELSE ReturnErr("instantiate")
    /\ UNCHANGED <<fuel, opts, clock, guest, ticks, pool_vars, share_vars, boot_vars, state, store_fuel, epoch, ticker, inflight, http_sent,
                   cap_ret, calls, executed, trapped, run_out, last>>

(* What the guests of the repository ask of the data capabilities *)
GuestStatements == {CreateTable(T, "S1"), InsertValues(T, <<10>>), SelectAll(T)}
GuestTables == {T, <<"t", ";">>}
GuestPayloads == {<<>>, encode_ipc(<<Batch("S1", <<10>>)>>).val}

GuestRecordEvent == pc = "running" /\ RecordEvent(AuditEntries)
GuestQuery == pc = "running" /\ Query(GuestStatements)
GuestExecute == pc = "running" /\ Execute(GuestStatements)
GuestInsert == pc = "running" /\ Insert(GuestTables, GuestPayloads)
GuestGenerate == pc = "running" /\ GenerateSend

(* A guest instruction that calls nothing *)
GuestInstr ==
    /\ pc = "running" /\ CanCall /\ Charge
    /\ UNCHANGED <<pc, fuel, opts, clock, guest, ticks, pool_vars, share_vars, boot_vars, state, epoch, ticker, inflight, http_sent,
                   cap_ret, calls, trapped, run_out, last, ret>>

(* The text a guest returns when it propagates a capability error: the      *)
(* error's message and code.                                                *)
ErrorText(e) == <<e.message, e.code>>

(* A teardown that turns the guest's error text into an error of            *)
(* run_component                                                            *)
Finish_err_fails(output) ==
    /\ run_out' = Some(output)
    /\ ticker' = "aborted"
    /\ ret' = IF output.ok
              THEN Some(Ok(RunResult(output, state.audit_entries, fuel - store_fuel')))
              ELSE Some(Err(0, "guest failed"))
    /\ pc' = "done"

(* call_run returned Ok(output): abort the ticker, compute the fuel         *)
(* consumed, take the HostState back, return the RunResult.                 *)
Finish(output) ==
    /\ run_out' = Some(output)
    /\ ticker' = "aborted"
    /\ ret' = Some(Ok(RunResult(output, state.audit_entries,
                                saturating_sub(fuel, store_fuel'))))
    /\ pc' = "done"

(* run() returns success text *)
GuestReturnOk ==
    /\ pc = "running" /\ CanCall /\ Charge
    /\ Finish(Ok("done"))
    /\ UNCHANGED <<fuel, opts, clock, guest, ticks, pool_vars, share_vars, boot_vars, state, epoch, inflight, http_sent, cap_ret, calls,
                   trapped, last>>

(* run() returns the error of its last capability call as error text *)
GuestReturnErr ==
    /\ pc = "running" /\ CanCall /\ Charge
    /\ ~cap_ret.res.ok
    /\ Finish(Err(0, ErrorText(cap_ret.res)))
    /\ UNCHANGED <<fuel, opts, clock, guest, ticks, pool_vars, share_vars, boot_vars, state, epoch, inflight, http_sent, cap_ret, calls,
                   trapped, last>>

(* The guest traps: out of fuel at its next instruction, past the epoch     *)
(* deadline at its next safepoint, or on a trapping instruction.  call_run  *)
(* returns Err and the `?` after it returns from run_component.             *)
Trap ==
    /\ pc = "running" /\ CanCall
    /\ \E class \in {"fuel", "deadline", "trap"} :
         /\ class = "fuel" => store_fuel = 0
         /\ class = "deadline" => epoch >= EpochDeadline
         /\ class = "trap" => store_fuel > 0
         /\ trapped' = Some(class)
         /\ ReturnErr(class)
    /\ UNCHANGED <<fuel, opts, clock, guest, ticks, pool_vars, share_vars, boot_vars, state, store_fuel, epoch, ticker, inflight, http_sent,
                   cap_ret, calls, executed, run_out, last>>

Next ==
    \/ CreateEngine
    \/ LoadComponent
    \/ Setup
    \/ Tick
    \/ Instantiate
    \/ GuestInstr
    \/ GuestRecordEvent
    \/ GuestQuery
    \/ GuestExecute
    \/ GuestInsert
    \/ GuestGenerate
    \/ GenerateRecv
    \/ GuestReturnOk
    \/ GuestReturnErr
    \/ Trap

Spec == Init /\ [][Next]_vars

----------------------------------------------------------------------------
(* run_component with a guest that loops without calling any capability.    *)
(* The caller wants a deadline of one tick or of the hundred of the code.   *)
(* The runtime keeps polling run_component's future, so every step of it    *)
(* that can be taken is taken in the end; nothing is assumed of the ticker  *)
(* task, which only runs when the runtime gets to it.                       *)

InitLoop ==
    /\ ticks \in {1, EpochDeadline}
    /\ PoolIdle /\ ShareIdle /\ BootIdle /\ EnvIdle
    /\ pc = "start"
    /\ fuel \in 0..MaxFuel
    /\ opts = [duck |-> None, inference |-> None]
    /\ state = HostState_new
    /\ Quiet

(* The looping guest executes no trapping instruction: it traps on fuel or  *)
(* on the deadline only.                                                    *)
LoopTrap == Trap /\ trapped' # Some("trap")

NextLoop ==
    \/ CreateEngine
    \/ LoadComponent
    \/ Setup
    \/ Tick
    \/ Instantiate
    \/ GuestInstr
    \/ LoopTrap

SpecLoop ==
    /\ InitLoop /\ [][NextLoop]_vars
    /\ WF_vars(CreateEngine) /\ WF_vars(LoadComponent) /\ WF_vars(Setup)
    /\ WF_vars(Instantiate) /\ WF_vars(GuestInstr) /\ WF_vars(LoopTrap)

----------------------------------------------------------------------------
(* run_component with an inference config and a service that answers when   *)
(* it likes, or never.  The runtime keeps polling run_component's future    *)
(* and runs the ticker task; nothing makes the service answer.              *)

InitWait ==
    /\ ticks = EpochDeadline
    /\ PoolIdle /\ ShareIdle /\ BootIdle /\ EnvIdle
    /\ pc = "start"
    /\ fuel \in 1..MaxFuel
    /\ opts = [duck |-> None, inference |-> Some(Config)]
    /\ state = HostState_new
    /\ Quiet

RunSteps ==
    \/ CreateEngine \/ LoadComponent \/ Setup \/ Instantiate
    \/ GuestInstr \/ GuestRecordEvent \/ GuestQuery \/ GuestExecute \/ GuestInsert
    \/ GuestGenerate \/ GuestReturnOk \/ GuestReturnErr \/ Trap

SpecWait == InitWait /\ [][Next]_vars /\ WF_vars(RunSteps) /\ WF_vars(Tick)

----------------------------------------------------------------------------
(* Concurrent calls of run_component, counted.  Every call creates an       *)
(* engine of its own, with a pool of its own, and instantiates the guest    *)
(* once in it: engines[k] is the number of engines alive with k instance    *)
(* slots in use.                                                            *)

InitPool ==
    /\ ticks = EpochDeadline
    /\ pending = MaxRuns
    /\ engines = [k \in 0..1 |-> 0]
    /\ ShareIdle /\ BootIdle /\ EnvIdle
    /\ pc = "pool"
    /\ fuel = 0
    /\ opts = [duck |-> None, inference |-> None]
    /\ state = HostState_new
    /\ Quiet

(* create_engine(): a new Engine with a new pooling allocator *)
PoolCreateEngine ==
    /\ pc = "pool" /\ pending > 0
    /\ pending' = pending - 1
    /\ engines' = [engines EXCEPT ![0] = @ + 1]
    /\ UNCHANGED <<run_vars, clock, guest, ticks, share_vars, boot_vars>>

(* instantiate_async: takes a slot of the pool of the call's own engine,    *)
(* and fails when that pool has none left.                                  *)
PoolInstantiate ==
    /\ pc = "pool" /\ engines[0] > 0
    /\ IF 0 < TotalComponentInstances
       THEN engines' = [engines EXCEPT ![0] = @ - 1, ![1] = @ + 1]
       ELSE engines' = [engines EXCEPT ![0] = @ - 1]
    /\ UNCHANGED <<run_vars, clock, guest, ticks, pending, share_vars, boot_vars>>

(* A `?` before the instantiation: the call returns and its engine goes *)
PoolFail ==
    /\ pc = "pool" /\ engines[0] > 0
    /\ engines' = [engines EXCEPT ![0] = @ - 1]
    /\ UNCHANGED <<run_vars, clock, guest, ticks, pending, share_vars, boot_vars>>

(* run_component returns: the Store, the instance and the engine go *)
PoolReturn ==
    /\ pc = "pool" /\ engines[1] > 0
    /\ engines' = [engines EXCEPT ![1] = @ - 1]
    /\ UNCHANGED <<run_vars, clock, guest, ticks, pending, share_vars, boot_vars>>

NextPool ==
    \/ PoolCreateEngine
    \/ PoolInstantiate
    \/ PoolFail
    \/ PoolReturn

SpecPool == InitPool /\ [][NextPool]_vars

(* The guest instances alive in all engines together *)
LiveInstances == engines[1]

----------------------------------------------------------------------------
(* DuckStore values and who owns them.  A caller opens stores and calls     *)
(* them; run_component takes its RunOptions, and the DuckStore in it, by    *)
(* value, and DuckStore has no Clone: what was handed over is the           *)
(* execution's until it is dropped with the HostState.                      *)

Handles == {"h1", "h2"}
Execs == 1..MaxExecs
Caller == 0
Dropped == MaxExecs + 1

InitShare ==
    /\ ticks = EpochDeadline
    /\ PoolIdle /\ BootIdle /\ EnvIdle
    /\ owner = [h \in Handles |-> Caller]
    /\ execs = [e \in Execs |-> [pc |-> "idle", duck |-> None]]
    /\ use = [n |-> 0, who |-> Caller, h |-> "none"]
    /\ pc = "share"
    /\ fuel = 0
    /\ opts = [duck |-> None, inference |-> None]
    /\ state = HostState_new
    /\ Quiet

(* run_component borrowing the store and leaving it with the caller *)
move_duck_borrowed(own, h, e) == own

(* opts.duck moved into run_component and on into the HostState *)
move_duck(own, h, e) == [own EXCEPT ![h] = e]

(* run_component(path, fuel, RunOptions { duck: Some(store), .. }) *)
ShareRun ==
    \E e \in Execs, h \in Handles :
        /\ pc = "share" /\ execs[e].pc = "idle" /\ owner[h] = Caller
        /\ owner' = move_duck(owner, h, e)
        /\ execs' = [execs EXCEPT ![e] = [pc |-> "running", duck |-> Some(h)]]
        /\ UNCHANGED <<run_vars, clock, guest, ticks, pool_vars, use, boot_vars>>

(* run_component(path, fuel, RunOptions::default()) *)
ShareRunBare ==
    \E e \in Execs :
        /\ pc = "share" /\ execs[e].pc = "idle"
        /\ execs' = [execs EXCEPT ![e] = [pc |-> "running", duck |-> None]]
        /\ UNCHANGED <<run_vars, clock, guest, ticks, pool_vars, owner, use, boot_vars>>

(* The caller, on any of its threads, calls a store it still has *)
ShareCallerUse ==
    \E h \in Handles :
        /\ pc = "share" /\ owner[h] = Caller
        /\ use' = [n |-> 1 - use.n, who |-> Caller, h |-> h]
        /\ UNCHANGED <<run_vars, clock, guest, ticks, pool_vars, owner, execs, boot_vars>>

(* The guest of an execution calls query, execute or insert: the            *)
(* implementation goes through self.duck.                                   *)
ShareGuestUse ==
    \E e \in Execs :
        /\ pc = "share" /\ execs[e].pc = "running" /\ execs[e].duck # None
        /\ use' = [n |-> 1 - use.n, who |-> e, h |-> Unwrap(execs[e].duck)]
        /\ UNCHANGED <<run_vars, clock, guest, ticks, pool_vars, owner, execs, boot_vars>>

(* run_component returns: the HostState taken out of the Store is dropped,  *)
(* and the DuckStore with it.                                               *)
ShareReturn ==
    \E e \in Execs :
        /\ pc = "share" /\ execs[e].pc = "running"
        /\ execs' = [execs EXCEPT ![e] = [pc |-> "done", duck |-> None]]
        /\ owner' = [h \in Handles |-> IF owner[h] = e THEN Dropped ELSE owner[h]]
        /\ UNCHANGED <<run_vars, clock, guest, ticks, pool_vars, use, boot_vars>>

NextShare ==
    \/ ShareRun
    \/ ShareRunBare
    \/ ShareCallerUse
    \/ ShareGuestUse
    \/ ShareReturn

SpecShare == InitShare /\ [][NextShare]_vars

----------------------------------------------------------------------------
(* The persistent store of the command line: a database file in the data    *)
(* directory, next to the Parquet snapshot files it is imported from.       *)
(* DuckDB commits every statement to the file, so the file holds what the   *)
(* open connection holds.                                                   *)

legislation == <<"l", "e", "g", "i", "s", "l", "a", "t", "i", "o", "n">>
law_edges == <<"l", "a", "w", "_", "e", "d", "g", "e", "s">>

(* A snapshot file is missing, or holds zero, one or two rows *)
ParquetFiles == {None, Some(<<>>), Some(<<10>>), Some(<<10, 20>>)}

(* An open that ignores the file and starts in memory *)
open_persistent_memory(file) == NoTables

(* DuckStore::open_persistent: the tables of the file, none if it is new *)
open_persistent(file) == file

(* DuckStore::has_tables: both counts can be taken *)
has_tables(tables) ==
    count_table(tables, legislation).ok /\ count_table(tables, law_edges).ok

(* load_legislation and load_law_edges: CREATE OR REPLACE TABLE .. AS        *)
(* SELECT * FROM read_parquet(..), an error if the file is not there        *)
load_table(tables, t, file) ==
    IF file = None THEN [ok |-> FALSE, tables |-> tables]
    ELSE [ok |-> TRUE, tables |-> WithTable(tables, t, Table("S1", Unwrap(file)))]

load_legislation(tables, dir) == load_table(tables, legislation, dir.legislation)
load_law_edges(tables, dir) == load_table(tables, law_edges, dir.law_edges)

(* load_all: the legislation, then the edges; the first error ends it *)
load_all(tables, dir) ==
    LET r == load_legislation(tables, dir)
    IN  IF ~r.ok THEN r ELSE load_law_edges(r.tables, dir)

InitBoot ==
    /\ ticks = EpochDeadline
    /\ PoolIdle /\ ShareIdle /\ EnvIdle
    /\ disk = NoTables
    /\ conn = None
    /\ parquet \in [legislation : ParquetFiles, law_edges : ParquetFiles]
    /\ boot = [op |-> "none", before |-> NoTables, after |-> NoTables,
               has_tables |-> FALSE, imported |-> FALSE, ok |-> TRUE,
               completed_before |-> FALSE, completed |-> FALSE]
    /\ pc = "boot"
    /\ fuel = 0
    /\ opts = [duck |-> None, inference |-> None]
    /\ state = HostState_new
    /\ Quiet

(* open_duck: open the file, import if has_tables says no.  When the import *)
(* fails the `?` returns and the store is dropped.                          *)
OpenDuck ==
    /\ pc = "boot" /\ conn = None
    /\ LET store == open_persistent(disk)
           h == has_tables(store)
           r == IF h THEN [ok |-> TRUE, tables |-> store] ELSE load_all(store, parquet)
       IN  /\ disk' = r.tables
           /\ conn' = IF r.ok THEN Some(r.tables) ELSE None
           /\ boot' = [op |-> "open_duck", before |-> disk, after |-> r.tables,
                       has_tables |-> h, imported |-> ~h, ok |-> r.ok,
                       completed_before |-> boot.completed,
                       completed |-> boot.completed \/ (~h /\ r.ok)]
    /\ UNCHANGED <<run_vars, clock, guest, ticks, pool_vars, share_vars, parquet>>

(* cmd_import: open the file, load_all, print the counts, drop the store *)
CmdImport ==
    /\ pc = "boot" /\ conn = None
    /\ LET store == open_persistent(disk)
           r == load_all(store, parquet)
       IN  /\ disk' = r.tables
           /\ boot' = [op |-> "cmd_import", before |-> disk, after |-> r.tables,
                       has_tables |-> has_tables(r.tables), imported |-> TRUE, ok |-> r.ok,
                       completed_before |-> boot.completed,
                       completed |-> boot.completed \/ r.ok]
    /\ UNCHANGED <<run_vars, clock, guest, ticks, pool_vars, share_vars, conn, parquet>>

(* Rows added to the legislation through the open store *)
BootInsert ==
    \E c \in Cols :
        /\ pc = "boot" /\ conn # None
        /\ \E r \in {insert_batch(Unwrap(conn), legislation, Batch("S1", c))} :
             /\ r.ok
             /\ Len(r.tables[legislation].col) <= MaxRows
             /\ conn' = Some(r.tables)
             /\ disk' = r.tables
        /\ UNCHANGED <<run_vars, clock, guest, ticks, pool_vars, share_vars, parquet, boot>>

(* The command ends: the store is dropped and the file closed *)
BootClose ==
    /\ pc = "boot" /\ conn # None
    /\ conn' = None
    /\ UNCHANGED <<run_vars, clock, guest, ticks, pool_vars, share_vars, disk, parquet, boot>>

NextBoot ==
    \/ OpenDuck
    \/ CmdImport
    \/ BootInsert
    \/ BootClose

SpecBoot == InitBoot /\ [][NextBoot]_vars

----------------------------------------------------------------------------
(* The audit log under the wall clock.  record_event stamps a record with   *)
(* chrono::Utc::now(), the system's real-time clock: between two calls it   *)
(* may have advanced, may read the same value, or may have been set back.   *)

InitClock ==
    /\ pc = "clock" /\ fuel = 0 /\ opts = [duck |-> None, inference |-> None]
    /\ state = HostState_new
    /\ Quiet
    /\ ticks = EpochDeadline /\ PoolIdle /\ ShareIdle /\ BootIdle
    /\ clock \in 0..MaxClock /\ guest = NoCall

ClockRecordEvent ==
    \E entry \in AuditEntries :
        /\ pc = "clock"
        /\ Len(state.audit_entries) < MaxAudit
        /\ state' = record_event(state, entry, clock)
        /\ UNCHANGED <<pc, fuel, opts, clock, guest, ticks, pool_vars, share_vars, boot_vars,
                       store_fuel, epoch, ticker, inflight, http_sent, cap_ret, calls,
                       executed, trapped, run_out, last, ret>>

ClockAdvance ==
    /\ pc = "clock" /\ clock < MaxClock
    /\ clock' = clock + 1
    /\ UNCHANGED <<run_vars, guest, ticks, pool_vars, share_vars, boot_vars>>

ClockSetBack ==
    /\ pc = "clock" /\ clock > 0
    /\ clock' = clock - 1
    /\ UNCHANGED <<run_vars, guest, ticks, pool_vars, share_vars, boot_vars>>

NextClock ==
    \/ ClockRecordEvent
    \/ ClockAdvance
    \/ ClockSetBack

SpecClock == InitClock /\ [][NextClock]_vars

----------------------------------------------------------------------------
(* normalize_provision (fractalaw-core, sort_key.rs).  A string is the      *)
(* sequence of its bytes; keys are compared as Rust compares strings, byte  *)
(* by byte.                                                                 *)

Ch0 == 48          \* '0'
ChA == 65          \* 'A'
ChZ == 90          \* 'Z'
ChDot == 46        \* '.'
ChSpace == 32      \* ' '
Letter(k) == ChA + k - 1      \* the k-th uppercase letter, k in 1..26

is_ascii_digit(b) == b >= Ch0 /\ b <= Ch0 + 9
is_ascii_uppercase(b) == b >= ChA /\ b <= ChZ
to_ascii_uppercase(s) ==
    [i \in 1..Len(s) |-> IF s[i] >= 97 /\ s[i] <= 122 THEN s[i] - 32 ELSE s[i]]

RECURSIVE trim_start(_)
trim_start(s) ==
    IF s # <<>> /\ Head(s) = ChSpace THEN trim_start(Tail(s)) ELSE s

RECURSIVE trim_end(_)
trim_end(s) ==
    IF s # <<>> /\ s[Len(s)] = ChSpace THEN trim_end(SubSeq(s, 1, Len(s) - 1)) ELSE s

trim(s) == trim_end(trim_start(s))

(* The decimal digits of n, most significant first *)
RECURSIVE Decimal(_)
Decimal(n) == IF n < 10 THEN <<Ch0 + n>> ELSE Append(Decimal(n \div 10), Ch0 + (n % 10))

(* {:03}: at least three digits, zero-padded; more when n needs them *)
pad3(n) ==
    IF n < 10 THEN <<Ch0, Ch0>> \o Decimal(n)
    ELSE IF n < 100 THEN <<Ch0>> \o Decimal(n)
    ELSE Decimal(n)

(* bytes.iter().position(|b| !b.is_ascii_digit()).unwrap_or(bytes.len()),  *)
(* as a count of leading digits                                             *)
RECURSIVE digit_end(_)
digit_end(bytes) ==
    IF bytes # <<>> /\ is_ascii_digit(Head(bytes)) THEN 1 + digit_end(Tail(bytes)) ELSE 0

(* upper[..digit_end].parse::<u32>().unwrap_or(0) *)
RECURSIVE parse_digits(_)
parse_digits(ds) ==
    IF ds = <<>> THEN 0
    ELSE parse_digits(SubSeq(ds, 1, Len(ds) - 1)) * 10 + (ds[Len(ds)] - Ch0)

(* The parse fails, and unwrap_or gives 0, only from ten significant digits  *)
(* on; up to nine digits the value is the number written.                   *)
parse_u32(ds) ==
    IF Len(ds) > 9 THEN 0 ELSE parse_digits(ds)

base_of(s) ==
    LET upper == to_ascii_uppercase(trim(s))
        n == digit_end(upper)
    IN  IF n > 0 THEN parse_u32(SubSeq(upper, 1, n)) ELSE 0

(* The while loop over the suffix: at most two groups after the base *)
RECURSIVE suffix_groups(_, _, _)
suffix_groups(suffix, i, segments) ==
    IF ~(i <= Len(suffix) /\ Len(segments) < 3) THEN segments
    ELSE IF suffix[i] = ChZ /\ i + 1 <= Len(suffix) /\ is_ascii_uppercase(suffix[i + 1])
    THEN suffix_groups(suffix, i + 2, Append(segments, (suffix[i + 1] - ChA) + 1))
    ELSE IF is_ascii_uppercase(suffix[i])
    THEN suffix_groups(suffix, i + 1, Append(segments, ((suffix[i] - ChA) + 1) * 10))
    ELSE segments

RECURSIVE pad_segments(_)
pad_segments(segments) ==
    IF Len(segments) < 3 THEN pad_segments(Append(segments, 0)) ELSE segments

normalize_provision(s) ==
    LET t == trim(s)
        upper == to_ascii_uppercase(t)
        n == digit_end(upper)
        base == IF n > 0 THEN parse_u32(SubSeq(upper, 1, n)) ELSE 0
        seg == pad_segments(suffix_groups(SubSeq(upper, n + 1, Len(upper)), 1, <<base>>))
    IN  IF t = <<>> THEN pad3(0) \o <<ChDot>> \o pad3(0) \o <<ChDot>> \o pad3(0)
        ELSE pad3(seg[1]) \o <<ChDot>> \o pad3(seg[2]) \o <<ChDot>> \o pad3(seg[3])

(* a < b for strings: the order of their bytes, a proper prefix first *)
RECURSIVE str_lt(_, _)
str_lt(a, b) ==
    IF b = <<>> THEN FALSE
    ELSE IF a = <<>> THEN TRUE
    ELSE IF Head(a) # Head(b) THEN Head(a) < Head(b)
    ELSE str_lt(Tail(a), Tail(b))

(* Provision numbers: a base, then nothing, a plain letter, a Z-prefix      *)
(* group, two groups, lower case, blanks around, or a foreign character.    *)
Bases == {1, 3, 4, 10, 19, 100, 999, MaxBase}
Suffixes ==
    {<<>>, <<Letter(1)>>, <<Letter(2)>>, <<Letter(26)>>,
     <<ChZ, Letter(1)>>, <<ChZ, Letter(9)>>, <<ChZ, Letter(10)>>, <<ChZ, Letter(26)>>,
     <<Letter(1), Letter(1)>>, <<Letter(4), ChZ, Letter(1)>>,
     <<Letter(1) + 32>>, <<45, Letter(1)>>}
Provisions ==
    {Decimal(n) \o suf : n \in Bases, suf \in Suffixes}
    \cup {<<>>, <<ChSpace, Ch0 + 3, ChA, ChSpace>>}

InitKey ==
    /\ pc = "key" /\ fuel = 0 /\ opts = [duck |-> None, inference |-> None]
    /\ state = HostState_new
    /\ store_fuel = 0 /\ epoch = 0 /\ ticker = "none" /\ inflight = None
    /\ http_sent = 0 /\ cap_ret = NoRet /\ calls = <<>> /\ executed = 0
    /\ trapped = None /\ run_out = None /\ ret = None
    /\ \E a \in Provisions, b \in Provisions : last = [op |-> "provisions", a |-> a, b |-> b]
    /\ ticks = EpochDeadline /\ PoolIdle /\ ShareIdle /\ BootIdle /\ EnvIdle

(* The keys of two provision numbers, as ORDER BY sort_key compares them *)
KeyNormalize ==
    /\ pc = "key" /\ last.op = "provisions"
    /\ last' = [op |-> "keys", a |-> last.a, b |-> last.b,
                key_a |-> normalize_provision(last.a),
                key_b |-> normalize_provision(last.b)]
    /\ UNCHANGED <<pc, fuel, opts, clock, guest, ticks, pool_vars, share_vars, boot_vars,
                   state, store_fuel, epoch, ticker, inflight, http_sent, cap_ret,
                   calls, executed, trapped, run_out, ret>>

NextKey == KeyNormalize

SpecKey == InitKey /\ [][NextKey]_vars

----------------------------------------------------------------------------
(* The drrp-polisher guest (guests/drrp-polisher/src/lib.rs).  The store    *)
(* holds the two tables of the guest: drrp_annotations, a set of rows with  *)
(* distinct confidences, and polished_drrp, the rows in insertion order.    *)
(* A table that does not exist is None.                                     *)

LawName == "UK_ukpga_1974_37"

(* Annotation k: the rows k = 2 and k = 3 are a duty and a right of the     *)
(* same provision; a smaller k has the greater confidence.                  *)
AnnotationRow(k) ==
    [law_name |-> LawName, provision |-> k \div 2,
     drrp_type |-> IF k % 2 = 0 THEN "duty" ELSE "right",
     confidence |-> MaxAnn + 1 - k, polished |-> FALSE]

PolishStores ==
    {[drrp_annotations |-> None, polished_drrp |-> None]}
    \cup {[drrp_annotations |-> Some({AnnotationRow(k) : k \in 1..n}), polished_drrp |-> None]
            : n \in 0..MaxAnn}
    \cup {[drrp_annotations |->
               Some({[AnnotationRow(k) EXCEPT !.polished = (k = 1)] : k \in 1..n}),
           polished_drrp |-> Some(<<>>)] : n \in 1..MaxAnn}

(* CREATE TABLE IF NOT EXISTS drrp_annotations, polished_drrp *)
create_tables(db) ==
    [drrp_annotations |-> IF db.drrp_annotations = None THEN Some({}) ELSE db.drrp_annotations,
     polished_drrp |-> IF db.polished_drrp = None THEN Some(<<>>) ELSE db.polished_drrp]

Unpolished(db) == {a \in Unwrap(db.drrp_annotations) : ~a.polished}

(* SELECT the count of drrp_annotations WHERE polished = false *)
count_unpolished(db) == Cardinality(Unpolished(db))

(* ... WHERE polished = false ORDER BY confidence DESC LIMIT 1 OFFSET n *)
select_unpolished(db, offset) ==
    LET rows == Unpolished(db)
        at == {a \in rows : Cardinality({b \in rows : b.confidence > a.confidence}) = offset}
    IN  IF at = {} THEN None ELSE Some(CHOOSE a \in at : TRUE)

(* INSERT INTO polished_drrp (...) VALUES (...) *)
insert_polished(db, ann, entry, confidence) ==
    [db EXCEPT !.polished_drrp =
        Some(Append(Unwrap(@), [law_name |-> ann.law_name, provision |-> ann.provision,
                                drrp_type |-> ann.drrp_type, holder |-> entry.holder,
                                confidence |-> confidence, model |-> "claude",
                                pushed |-> FALSE]))]

(* UPDATE drrp_annotations SET polished = true                              *)
(*   WHERE law_name = .. AND provision = .. AND polished = false            *)
mark_polished(db, law_name, provision) ==
    [db EXCEPT !.drrp_annotations =
        Some({IF a.law_name = law_name /\ a.provision = provision /\ ~a.polished
              THEN [a EXCEPT !.polished = TRUE] ELSE a : a \in Unwrap(@)})]

(* The text of a response that parses as a PolishedEntry, and one that does *)
(* not                                                                      *)
EntryJson == "{\"holder\":\"h\",\"text\":\"t\",\"qualifier\":null,\"clause_ref\":\"c\"}"
parse_entry(text) ==
    IF text = EntryJson THEN Some([holder |-> "h", text |-> "t", clause_ref |-> "c"])
    ELSE None

(* What one iteration can meet: the answer of the service to generate, and  *)
(* which of the store calls of process_one, if any, fails.                  *)
PolishResponses ==
    {Response(FALSE, FALSE, 0, "", FALSE, None, None),
     Response(TRUE, TRUE, 200, "{}", TRUE, Some("x"), Some(5)),
     Response(TRUE, TRUE, 200, "{}", TRUE, Some(EntryJson), Some(5))}

PolishOutcomes ==
    {[resp |-> r, fail |-> "none"] : r \in PolishResponses}
    \cup {[resp |-> Response(TRUE, TRUE, 200, "{}", TRUE, Some(EntryJson), Some(5)), fail |-> f]
            : f \in {"query", "insert", "update"}}

(* ai_inference::generate as the guest sees it *)
guest_generate(st, resp) ==
    IF generate_send(st, CHOOSE r \in Requests : r.system_prompt # None).sent
    THEN generate_recv(resp)
    ELSE generate_send(st, CHOOSE r \in Requests : r.system_prompt # None).res

(* audit(event_type, detail) *)
audit(st, event_type, detail, now) ==
    record_event(st, [event_type |-> event_type, resource |-> "drrp-polisher",
                      detail |-> detail], now)

(* process_one marking the annotation before the inference call *)
process_one_mark_first(st, offset, outcome) ==
    LET db == Unwrap(st.duck)
        row == select_unpolished(db, offset)
    IN  IF outcome.fail = "query" THEN [res |-> Err(2, "query failed"), st |-> st]
        ELSE IF row = None
        THEN [res |-> Err(0, "failed to parse string from IPC result"), st |-> st]
        ELSE LET ann == Unwrap(row)
                 marked == with_duck(st, mark_polished(db, ann.law_name, ann.provision))
                 response == guest_generate(st, outcome.resp)
             IN  IF ~response.ok THEN [res |-> Err(response.code, "inference"), st |-> marked]
                 ELSE IF parse_entry(response.val.text) = None
                 THEN [res |-> Err(0, "parse Claude response"), st |-> marked]
                 ELSE [res |-> Ok(response.val.tokens_used),
                       st |-> with_duck(st, mark_polished(
                                  insert_polished(db, ann, Unwrap(parse_entry(response.val.text)),
                                                  response.val.confidence),
                                  ann.law_name, ann.provision))]

(* process_one(offset): fetch the annotation at the offset among the        *)
(* unpolished ones, ask the service, insert the polished row, mark the      *)
(* annotation.  Each step returns its error with `?`.                       *)
process_one(st, offset, outcome) ==
    LET db == Unwrap(st.duck)
        row == select_unpolished(db, offset)
    IN  IF outcome.fail = "query" THEN [res |-> Err(2, "query failed"), st |-> st]
        ELSE IF row = None
        THEN [res |-> Err(0, "failed to parse string from IPC result"), st |-> st]
        ELSE LET ann == Unwrap(row)
                 response == guest_generate(st, outcome.resp)
             IN  IF ~response.ok THEN [res |-> Err(response.code, "inference"), st |-> st]
                 ELSE IF parse_entry(response.val.text) = None
                 THEN [res |-> Err(0, "parse Claude response"), st |-> st]
                 ELSE IF outcome.fail = "insert"
                 THEN [res |-> Err(2, "execute failed"), st |-> st]
                 ELSE LET db1 == insert_polished(db, ann, Unwrap(parse_entry(response.val.text)),
                                                 response.val.confidence)
                      IN  IF outcome.fail = "update"
                          THEN [res |-> Err(2, "execute failed"), st |-> with_duck(st, db1)]
                          ELSE [res |-> Ok(response.val.tokens_used),
                                st |-> with_duck(st, mark_polished(db1, ann.law_name,
                                                                   ann.provision))]

Summary(polished, count, errors, total_tokens) ==
    [polished |-> polished, count |-> count, errors |-> errors,
     total_tokens |-> total_tokens]

InitPolish ==
    /\ pc = "polish" /\ fuel = 0
    /\ opts \in [duck : {None} \cup {Some(d) : d \in PolishStores},
                 inference : {None, Some(Config)}]
    /\ state = [audit_entries |-> <<>>, duck |-> opts.duck, inference |-> opts.inference]
    /\ Quiet
    /\ ticks = EpochDeadline /\ PoolIdle /\ ShareIdle /\ BootIdle
    /\ clock = 0
    /\ guest = [pos |-> "start", before |-> opts.duck, count |-> 0, i |-> 0,
                polished |-> 0, errors |-> 0, total_tokens |-> 0,
                trace |-> <<>>, output |-> None]

(* run() up to the loop: the two CREATE TABLE IF NOT EXISTS, the count *)
PolishStart ==
    /\ pc = "polish" /\ guest.pos = "start"
    /\ LET st0 == audit(state, "app-started", "DRRP polisher run starting", clock) IN
       IF st0.duck = None
       THEN /\ state' = st0
            /\ guest' = [guest EXCEPT !.pos = "done",
                                      !.output = Some(Err(1, "execute failed"))]
       ELSE LET db == create_tables(Unwrap(st0.duck))
                st1 == with_duck(st0, db)
                count == count_unpolished(db)
            IN  IF count = 0
                THEN /\ state' = audit(st1, "batch-empty", "no unpolished annotations found", clock)
                     /\ guest' = [guest EXCEPT !.pos = "done", !.before = Some(db),
                                     !.output = Some(Ok("No unpolished annotations to process."))]
                ELSE /\ state' = audit(st1, "batch-start", count, clock)
                     /\ guest' = [guest EXCEPT !.pos = "loop", !.before = Some(db),
                                               !.count = count]
    /\ UNCHANGED <<pc, fuel, opts, clock, ticks, pool_vars, share_vars, boot_vars,
                   store_fuel, epoch, ticker, inflight, http_sent, cap_ret, calls,
                   executed, trapped, run_out, last, ret>>

(* One iteration of for i in 0..count *)
PolishOne ==
    \E outcome \in PolishOutcomes :
        /\ pc = "polish" /\ guest.pos = "loop" /\ guest.i < guest.count
        /\ \E r \in {process_one(state, guest.i, outcome)} :
              IF r.res.ok
              THEN /\ state' = r.st
                   /\ guest' = [guest EXCEPT !.i = @ + 1, !.polished = @ + 1,
                                             !.total_tokens = @ + r.res.val,
                                             !.trace = Append(@, [outcome |-> outcome, ok |-> TRUE])]
              ELSE /\ state' = audit(r.st, "polish-error", <<guest.i, r.res.message>>, clock)
                   /\ guest' = [guest EXCEPT !.i = @ + 1, !.errors = @ + 1,
                                             !.trace = Append(@, [outcome |-> outcome, ok |-> FALSE])]
        /\ UNCHANGED <<pc, fuel, opts, clock, ticks, pool_vars, share_vars, boot_vars,
                       store_fuel, epoch, ticker, inflight, http_sent, cap_ret, calls,
                       executed, trapped, run_out, last, ret>>

(* After the loop: the summary, audited and returned *)
PolishFinish ==
    /\ pc = "polish" /\ guest.pos = "loop" /\ guest.i = guest.count
    /\ LET summary == Summary(guest.polished, guest.count, guest.errors, guest.total_tokens) IN
       /\ state' = audit(state, "batch-complete", summary, clock)
       /\ guest' = [guest EXCEPT !.pos = "done", !.output = Some(Ok(summary))]
    /\ UNCHANGED <<pc, fuel, opts, clock, ticks, pool_vars, share_vars, boot_vars,
                   store_fuel, epoch, ticker, inflight, http_sent, cap_ret, calls,
                   executed, trapped, run_out, last, ret>>

NextPolish ==
    \/ PolishStart
    \/ PolishOne
    \/ PolishFinish

SpecPolish == InitPolish /\ [][NextPolish]_vars

----------------------------------------------------------------------------
(* insert over payloads in which a later batch can fail: batches of one     *)
(* schema whose column holds a value or a null, sent to a table that        *)
(* exists, to one that does not, and streams that do not decode.            *)

NullCols == {<<10>>, <<10, 20>>, <<Null>>}
InsertPayloads ==
    {encode_ipc([i \in 1..Len(cs) |-> Batch("S1", cs[i])]).val : cs \in SeqsUpTo(NullCols, MaxBatches)}
    \cup {encode_ipc(<<Batch("S2", <<10>>)>>).val, <<JunkMsg>>,
          <<SchemaMsg("S1"), BatchMsg(<<10>>)>>}

InitInsert ==
    /\ ticks = EpochDeadline
    /\ PoolIdle /\ ShareIdle /\ BootIdle /\ EnvIdle
    /\ pc = "host"
    /\ fuel = 0
    /\ opts = [duck |-> None, inference |-> None]
    /\ state \in [audit_entries : {<<>>},
                  duck : {Some(d) : d \in InitStores},
                  inference : {None}]
    /\ Quiet

InsertBatches == pc = "host" /\ Insert({T, <<"u">>}, InsertPayloads)

NextInsert == InsertBatches

SpecInsert == InitInsert /\ [][NextInsert]_vars

----------------------------------------------------------------------------
(* The scalar decoders of the drrp-polisher guest (ipc.rs).  The guest is   *)
(* built for wasm32: a usize has 32 bits.  A usize is written here as the   *)
(* integer with the same 32 bits in two's complement, so that an i32 cast   *)
(* to usize keeps its value and a negative integer stands for a usize of    *)
(* 2^31 or more.  The values of the model stay small in magnitude: a sum    *)
(* of two of them is the two's-complement image of the wrapped sum.         *)
(* A decoder returns a value, None, or does not return: it indexes outside  *)
(* the buffer, which panics, or a position computation overflows, which     *)
(* panics with overflow checks and wraps without them.                      *)

IpcSome(v) == [kind |-> "some", val |-> v]
IpcNone == [kind |-> "none", val |-> 0]
IpcOutOfBounds == [kind |-> "index out of bounds", val |-> 0]
IpcOverflow == [kind |-> "overflow", val |-> 0]

(* a <= b and a + b on usize *)
usize_le(a, b) ==
    IF a >= 0 /\ b >= 0 THEN a <= b
    ELSE IF a >= 0 THEN TRUE
    ELSE IF b >= 0 THEN FALSE
    ELSE a <= b

usize_add(a, b) ==
    [overflow |-> IF a >= 0 /\ b >= 0 THEN FALSE
                  ELSE IF a < 0 /\ b < 0 THEN TRUE
                  ELSE a + b >= 0,
     val |-> a + b]

(* buf[pos], .., buf[pos + n - 1] are inside the buffer *)
InBuffer(buf, pos, n) == pos >= 0 /\ pos + n <= Len(buf)

(* i32::from_le_bytes, u16::from_le_bytes; positions count from 0 *)
read_i32(buf, pos) ==
    buf[pos + 1] + 256 * buf[pos + 2] + 65536 * buf[pos + 3]
      + 16777216 * (IF buf[pos + 4] >= 128 THEN buf[pos + 4] - 256 ELSE buf[pos + 4])

read_u16(buf, pos) == buf[pos + 1] + 256 * buf[pos + 2]

(* i64::from_le_bytes, as its low and high halves *)
read_i64(buf, pos) == <<read_i32(buf, pos), read_i32(buf, pos + 4)>>

(* extract_body_length: bodyLength of a Message flatbuffer, as usize *)
extract_body_length(ipc, meta_start, meta_size) ==
    IF ~usize_le(8, meta_size) THEN IpcNone
    ELSE IF ~InBuffer(ipc, meta_start, 4) THEN IpcOutOfBounds
    ELSE LET root_offset == read_i32(ipc, meta_start)
             table_start == usize_add(meta_start, root_offset)
             meta_end == usize_add(meta_start, meta_size)
         IN  IF table_start.overflow THEN IpcOverflow
             ELSE IF usize_add(table_start.val, 4).overflow \/ meta_end.overflow
             THEN IpcOverflow
             ELSE IF ~usize_le(table_start.val + 4, meta_end.val) THEN IpcNone
             ELSE IF ~InBuffer(ipc, table_start.val, 4) THEN IpcOutOfBounds
             ELSE LET vtable_soffset == read_i32(ipc, table_start.val)
                      vtable_start == table_start.val - vtable_soffset
                  IN  IF usize_add(vtable_start, 4).overflow THEN IpcOverflow
                      ELSE IF ~usize_le(vtable_start + 4, meta_end.val) THEN IpcNone
                      ELSE IF ~InBuffer(ipc, vtable_start, 2) THEN IpcOutOfBounds
                      ELSE IF 10 + 2 > read_u16(ipc, vtable_start) THEN IpcSome(0)
                      ELSE IF ~InBuffer(ipc, vtable_start + 10, 2) THEN IpcOutOfBounds
                      ELSE LET field_offset == read_u16(ipc, vtable_start + 10)
                           IN  IF field_offset = 0 THEN IpcSome(0)
                               ELSE IF ~InBuffer(ipc, table_start.val + field_offset, 8)
                               THEN IpcOutOfBounds
                               ELSE IpcSome(read_i32(ipc, table_start.val + field_offset))

(* The while loop of extract_i64 from position pos with message_idx *)
RECURSIVE extract_i64_from(_, _, _)
extract_i64_from(ipc, pos, message_idx) ==
    IF usize_add(pos, 8).overflow THEN IpcOverflow
    ELSE IF ~usize_le(pos + 8, Len(ipc)) THEN IpcNone
    ELSE IF read_i32(ipc, pos) # -1 THEN IpcNone
    ELSE LET meta_size == read_i32(ipc, pos + 4)
             meta_start == pos + 8
             meta_padded == 8 * ((meta_size + 7) \div 8)
             next == usize_add(meta_start, meta_padded)
         IN  IF meta_size = 0 THEN IpcNone
             ELSE IF usize_add(meta_size, 7).overflow \/ next.overflow THEN IpcOverflow
             ELSE IF message_idx = 0 THEN extract_i64_from(ipc, next.val, 1)
             ELSE LET bl == extract_body_length(ipc, meta_start, meta_size)
                      body_start == next.val
                  IN  IF bl.kind # "some" THEN bl
                      ELSE IF usize_add(body_start, bl.val).overflow THEN IpcOverflow
                      ELSE IF usize_le(72, bl.val)
                      THEN IF InBuffer(ipc, body_start + 64, 8)
                           THEN IpcSome(read_i64(ipc, body_start + 64)) ELSE IpcOutOfBounds
                      ELSE IF usize_le(16, bl.val)
                      THEN IF InBuffer(ipc, body_start + 8, 8)
                           THEN IpcSome(read_i64(ipc, body_start + 8)) ELSE IpcOutOfBounds
                      ELSE IF usize_le(8, bl.val)
                      THEN IF InBuffer(ipc, body_start, 8)
                           THEN IpcSome(read_i64(ipc, body_start)) ELSE IpcOutOfBounds
                      ELSE extract_i64_from(ipc, body_start + bl.val, message_idx + 1)

extract_i64(ipc) == extract_i64_from(ipc, 0, 0)

(* String::from_utf8(..).ok(): the bytes of the model are ASCII or 0xFF *)
from_utf8(s) == IF \A i \in 1..Len(s) : s[i] < 128 THEN IpcSome(s) ELSE IpcNone

(* extract_string_from_body: the three layouts, tried in order *)
RECURSIVE extract_string_layouts(_, _, _, _)
extract_string_layouts(ipc, body_start, body_length, layouts) ==
    IF layouts = <<>> THEN IpcNone
    ELSE LET offsets_off == Head(layouts)[1]
             data_off == Head(layouts)[2]
             body_end == body_start + body_length
         IN  IF usize_add(body_start, body_length).overflow THEN IpcOverflow
             ELSE IF ~usize_le(body_start + offsets_off + 8, body_end)
             THEN extract_string_layouts(ipc, body_start, body_length, Tail(layouts))
             ELSE IF ~InBuffer(ipc, body_start + offsets_off, 8) THEN IpcOutOfBounds
             ELSE LET offset0 == read_i32(ipc, body_start + offsets_off)
                      offset1 == read_i32(ipc, body_start + offsets_off + 4)
                      str_start == body_start + data_off
                  IN  IF offset0 = 0 /\ offset1 # 0 /\ usize_le(offset1, body_length)
                           /\ offset1 # body_length
                      THEN IF usize_add(str_start, offset1).overflow THEN IpcOverflow
                           ELSE IF usize_le(str_start + offset1, body_end)
                           THEN IF InBuffer(ipc, str_start, offset1)
                                THEN from_utf8(SubSeq(ipc, str_start + 1, str_start + offset1))
                                ELSE IpcOutOfBounds
                           ELSE extract_string_layouts(ipc, body_start, body_length,
                                                       Tail(layouts))
                      ELSE extract_string_layouts(ipc, body_start, body_length, Tail(layouts))

extract_string_from_body(ipc, body_start, body_length) ==
    extract_string_layouts(ipc, body_start, body_length, <<<<64, 128>>, <<8, 16>>, <<0, 8>>>>)

(* The while loop of extract_string *)
RECURSIVE extract_string_from(_, _, _)
extract_string_from(ipc, pos, message_idx) ==
    IF usize_add(pos, 8).overflow THEN IpcOverflow
    ELSE IF ~usize_le(pos + 8, Len(ipc)) THEN IpcNone
    ELSE IF read_i32(ipc, pos) # -1 THEN IpcNone
    ELSE LET meta_size == read_i32(ipc, pos + 4)
             meta_start == pos + 8
             meta_padded == 8 * ((meta_size + 7) \div 8)
             next == usize_add(meta_start, meta_padded)
         IN  IF meta_size = 0 THEN IpcNone
             ELSE IF usize_add(meta_size, 7).overflow \/ next.overflow THEN IpcOverflow
             ELSE IF message_idx = 0 THEN extract_string_from(ipc, next.val, 1)
             ELSE LET bl == extract_body_length(ipc, meta_start, meta_size)
                  IN  IF bl.kind # "some" THEN bl
                      ELSE extract_string_from_body(ipc, next.val, bl.val)

extract_string(ipc) == extract_string_from(ipc, 0, 0)

(* Streams as the host's writer lays them out, little-endian *)
LeI32(n) == IF n >= 0 THEN <<n % 256, n \div 256, 0, 0>> ELSE <<256 + n, 255, 255, 255>>
LeU16(n) == <<n % 256, n \div 256>>
LeI64(n) == LeI32(n) \o (IF n >= 0 THEN <<0, 0, 0, 0>> ELSE <<255, 255, 255, 255>>)
Zeros(n) == [i \in 1..n |-> 0]

(* A Message flatbuffer of 32 bytes: the root offset, a vtable of six       *)
(* slots whose field 3 points at bodyLength, the table, bodyLength.         *)
MessageMeta(body_length) ==
    LeI32(16) \o LeU16(12) \o LeU16(16) \o LeU16(0) \o LeU16(0) \o LeU16(0) \o LeU16(8)
      \o LeI32(12) \o LeI32(0) \o LeI64(body_length)

IpcMessage(meta_size, meta, body) == LeI32(-1) \o LeI32(meta_size) \o meta \o body
IpcSchema == IpcMessage(8, Zeros(8), <<>>)
IpcEos == LeI32(-1) \o LeI32(0)

IpcStreams ==
    {IpcSchema \o IpcMessage(32, MessageMeta(8), LeI64(42)) \o IpcEos,
     IpcSchema \o IpcMessage(32, MessageMeta(16), Zeros(8) \o LeI64(7)) \o IpcEos,
     IpcSchema \o IpcMessage(32, MessageMeta(16), LeI32(0) \o LeI32(2) \o <<97, 98>> \o Zeros(6))
        \o IpcEos,
     IpcSchema \o IpcMessage(32, MessageMeta(16), LeI32(0) \o LeI32(2) \o <<255, 98>> \o Zeros(6))
        \o IpcEos,
     IpcSchema \o IpcMessage(32, MessageMeta(72), Zeros(64) \o LeI64(-1)) \o IpcEos,
     IpcSchema \o IpcMessage(32, MessageMeta(0), <<>>) \o IpcEos,
     IpcSchema \o IpcMessage(32, MessageMeta(-8), <<>>) \o IpcEos,
     IpcSchema \o IpcMessage(-8, <<>>, <<>>),
     IpcMessage(-1, <<>>, <<>>),
     Zeros(8)}

(* Every byte sequence a guest can be handed: the streams and what is left  *)
(* of them when they are cut short                                          *)
IpcInputs == UNION {{SubSeq(s, 1, n) : n \in 0..Len(s)} : s \in IpcStreams}

InitIpc ==
    /\ pc = "ipc" /\ fuel = 0 /\ opts = [duck |-> None, inference |-> None]
    /\ state = HostState_new
    /\ store_fuel = 0 /\ epoch = 0 /\ ticker = "none" /\ inflight = None
    /\ http_sent = 0 /\ cap_ret = NoRet /\ calls = <<>> /\ executed = 0
    /\ trapped = None /\ run_out = None /\ ret = None
    /\ \E ipc \in IpcInputs : last = [op |-> "ipc", ipc |-> ipc]
    /\ ticks = EpochDeadline /\ PoolIdle /\ ShareIdle /\ BootIdle /\ EnvIdle

IpcExtractI64 ==
    /\ pc = "ipc" /\ cap_ret = NoRet
    /\ cap_ret' = [op |-> "extract_i64", res |-> extract_i64(last.ipc)]
    /\ UNCHANGED <<pc, fuel, opts, clock, guest, ticks, pool_vars, share_vars, boot_vars,
                   state, store_fuel, epoch, ticker, inflight, http_sent, calls,
                   executed, trapped, run_out, last, ret>>

IpcExtractString ==
    /\ pc = "ipc" /\ cap_ret = NoRet
    /\ cap_ret' = [op |-> "extract_string", res |-> extract_string(last.ipc)]
    /\ UNCHANGED <<pc, fuel, opts, clock, guest, ticks, pool_vars, share_vars, boot_vars,
                   state, store_fuel, epoch, ticker, inflight, http_sent, calls,
                   executed, trapped, run_out, last, ret>>

NextIpc ==
    \/ IpcExtractI64
    \/ IpcExtractString

SpecIpc == InitIpc /\ [][NextIpc]_vars

----------------------------------------------------------------------------
(* Properties *)

EntryOf(rec) == [event_type |-> rec.event_type, resource |-> rec.resource,
                 detail |-> rec.detail]
EntriesOf(recs) == [i \in 1..Len(recs) |-> EntryOf(recs[i])]

Returned == ret # None /\ Unwrap(ret).ok
Result == Unwrap(ret).val

HasBadChar(table) ==
    \E i \in 1..Len(table) : table[i] \notin (AsciiAlphanumeric \cup {"_"})

RECURSIVE SumRows(_)
SumRows(batches) ==
    IF batches = <<>> THEN 0 ELSE Len(Head(batches).col) + SumRows(Tail(batches))

(* C1: whenever run_component has returned after starting the epoch ticker, *)
(* the ticker task has been aborted: on a normal return, on an              *)
(* instantiation failure and on a trap.                                     *)
C1_TickerAbortedOnReturn ==
    (pc = "done" /\ ticker # "none") => ticker = "aborted"

(* C2: when the guest traps during run(), run_component still yields a Run *)
(* Result: the outcome is an error text naming the trap class, the audit    *)
(* sequence holds every record appended before the trap, and the fuel       *)
(* consumed is reported, equal to the budget for a fuel trap.               *)
C2_TrapYieldsRunResult ==
    (pc = "done" /\ trapped # None) =>
        /\ Returned
        /\ ~Result.output.ok
        /\ Result.output.message = Unwrap(trapped)
        /\ EntriesOf(Result.audit_entries) = calls
        /\ (Unwrap(trapped) = "fuel" => Result.fuel_consumed = fuel)

(* C3: the audit sequence starts empty, holds during the run exactly the    *)
(* record-event calls issued so far, in order, and the audit sequence of a  *)
(* returned Run Result equals the sequence of calls of the run: one record  *)
(* per call, with the call's event kind, resource and detail.               *)
C3_AuditEqualsCalls ==
    /\ (pc = "spawned" => state.audit_entries = <<>>)
    /\ (pc = "running" => EntriesOf(state.audit_entries) = calls)
    /\ (Returned => EntriesOf(Result.audit_entries) = calls)

C3_Witness ==
    /\ Returned
    /\ Len(calls) = 2
    /\ calls[1] # calls[2]
    /\ Len(Result.audit_entries) = 2

(* C4: when run() returns the error of a capability call as error text, the *)
(* execution is a success for the host: run_component returns Ok with a Run *)
(* Result whose outcome is that error text, whose audit sequence holds the  *)
(* records made before the return and whose fuel consumed is reported.      *)
C4_ErrorTextIsSuccess ==
    (run_out # None /\ ~Unwrap(run_out).ok) =>
        /\ Returned
        /\ Result.output = Unwrap(run_out)
        /\ Result.output.message = ErrorText(cap_ret.res)
        /\ EntriesOf(Result.audit_entries) = calls
        /\ Result.fuel_consumed = fuel - store_fuel

C4_Witness ==
    /\ pc = "done"
    /\ run_out # None
    /\ ~Unwrap(run_out).ok
    /\ cap_ret.op = "generate"
    /\ cap_ret.res.code = 1
    /\ Len(calls) >= 1
    /\ Returned

(* C5: the fuel consumed of a Run Result is the budget minus the fuel left, *)
(* not below zero; it never exceeds the budget, and it is positive when the *)
(* guest executed an instruction.                                           *)
C5_FuelConsumed ==
    Returned =>
        /\ Result.fuel_consumed = (IF fuel >= store_fuel THEN fuel - store_fuel ELSE 0)
        /\ Result.fuel_consumed <= fuel
        /\ (executed > 0 => Result.fuel_consumed > 0)

C5_Witness ==
    /\ Returned
    /\ executed > 0
    /\ Result.fuel_consumed > 0
    /\ Result.fuel_consumed < fuel

(* C6: with no store attached, query, execute and insert fail with code 1   *)
(* whatever the statement, the table name and the payload; nothing is       *)
(* written or submitted and the run state is as before the call.            *)
C6_NoStoreCode1 ==
    (last.op \in {"query", "execute", "insert"} /\ last.before.duck = None) =>
        /\ ~cap_ret.res.ok
        /\ cap_ret.res.code = 1
        /\ state = last.before
        /\ (last.op = "insert" => last.tmp = 0 /\ last.sqls = <<>>)

C6_Witness ==
    /\ last.op = "insert"
    /\ last.before.duck = None
    /\ ~decode_ipc(last.data).ok
    /\ HasBadChar(last.table)
    /\ cap_ret.res.code = 1

(* C7: with no inference config attached, a generate call fails with code 1 *)
(* at once: no request is sent to the external service and none is in       *)
(* flight.                                                                  *)
C7_NoInferenceCode1 ==
    (state.inference = None /\ cap_ret.op \in {"generate", "generate_pending"}) =>
        /\ cap_ret.op = "generate"
        /\ ~cap_ret.res.ok
        /\ cap_ret.res.code = 1
        /\ http_sent = 0
        /\ inflight = None

C7_Witness ==
    /\ pc = "running"
    /\ state.inference = None
    /\ cap_ret.op = "generate"
    /\ cap_ret.res.code = 1
    /\ http_sent = 0

(* C8: insert_batch with a table name that has a character outside          *)
(* [A-Za-z0-9_] fails before anything is composed: no temporary file is     *)
(* written, no SQL is submitted, the tables are unchanged.                  *)
C8_BadNameRejectedEarly ==
    (last.op = "insert_batch" /\ HasBadChar(last.table)) =>
        /\ ~cap_ret.res.ok
        /\ last.tmp = 0
        /\ last.sqls = <<>>
        /\ state = last.before

C8_Witness ==
    /\ last.op = "insert_batch"
    /\ last.table = <<"t", ";">>
    /\ T \in DOMAIN Unwrap(last.before.duck)
    /\ ~cap_ret.res.ok

(* C9, as claimed: with a store attached, insert with a table name that has *)
(* a character outside [A-Za-z0-9_] and a decodable payload returns an      *)
(* error with code 3.                                                       *)
C9_BadNameAlwaysCode3 ==
    (/\ last.op = "insert"
     /\ last.before.duck # None
     /\ HasBadChar(last.table)
     /\ decode_ipc(last.data).ok) =>
        (~cap_ret.res.ok /\ cap_ret.res.code = 3)

(* C9, amended: with a store attached and a table name that has a character *)
(* outside [A-Za-z0-9_], insert returns an error with code 3, with nothing  *)
(* written or submitted, when the payload decodes to at least one batch; a  *)
(* payload that decodes to no batch never reaches the store's check and     *)
(* insert returns 0.                                                        *)
C9_BadNameCode3WhenBatches ==
    (/\ last.op = "insert"
     /\ last.before.duck # None
     /\ HasBadChar(last.table)
     /\ decode_ipc(last.data).ok) =>
        /\ state = last.before
        /\ last.tmp = 0
        /\ last.sqls = <<>>
        /\ IF decode_ipc(last.data).val # <<>>
           THEN ~cap_ret.res.ok /\ cap_ret.res.code = 3
           ELSE cap_ret.res = Ok(0)

C9_Witness ==
    /\ last.op = "insert"
    /\ last.before.duck # None
    /\ T \in DOMAIN Unwrap(last.before.duck)
    /\ last.table = <<"t", ";">>
    /\ decode_ipc(last.data).ok
    /\ Len(decode_ipc(last.data).val) = 2
    /\ cap_ret.res.code = 3

(* C10: a successful insert returns the sum of the row counts of the        *)
(* batches decoded from the payload, and a count query on the target table  *)
(* afterwards gives the count before plus the returned value (a target that *)
(* does not exist is only ever "inserted into" with a payload of no batch). *)
C10_InsertRowCount ==
    (last.op = "insert" /\ cap_ret.res.ok) =>
        LET before == count_table(Unwrap(last.before.duck), last.table)
            after == count_table(Unwrap(state.duck), last.table)
        IN  /\ cap_ret.res.val = SumRows(decode_ipc(last.data).val)
            /\ IF before.ok
               THEN after.ok /\ after.val = before.val + cap_ret.res.val
               ELSE cap_ret.res.val = 0 /\ state = last.before

C10_Witness ==
    /\ last.op = "insert"
    /\ cap_ret.res.ok
    /\ cap_ret.res.val = 2
    /\ Len(decode_ipc(last.data).val) = 2
    /\ count_table(Unwrap(last.before.duck), last.table) = Ok(1)
    /\ count_table(Unwrap(state.duck), last.table) = Ok(3)

(* C11: query maps its outcomes to the error codes in a fixed priority:     *)
(* code 1 if no store is attached; otherwise code 2 if the store rejects    *)
(* the statement; otherwise code 3 if the encoding of the result fails;     *)
(* otherwise the encoded bytes.  No other code is produced.                 *)
C11_QueryCodePriority ==
    (cap_ret.op = "query" /\ last.op = "query") =>
        /\ cap_ret.res.ok \/ cap_ret.res.code \in {1, 2, 3}
        /\ IF last.before.duck = None
           THEN ~cap_ret.res.ok /\ cap_ret.res.code = 1
           ELSE LET r == query_arrow(Unwrap(last.before.duck), last.sql)
                IN  IF ~r.ok
                    THEN ~cap_ret.res.ok /\ cap_ret.res.code = 2
                    ELSE IF ~encode_ipc(r.batches).ok
                    THEN ~cap_ret.res.ok /\ cap_ret.res.code = 3
                    ELSE cap_ret.res = Ok(encode_ipc(r.batches).val)

(* A store is attached and rejects the statement: code 2 *)
C11_Witness ==
    /\ cap_ret.op = "query" /\ last.op = "query"
    /\ last.before.duck # None
    /\ last.sql = BadSql
    /\ ~cap_ret.res.ok /\ cap_ret.res.code = 2

OneSchema(batches) ==
    \A i, j \in 1..Len(batches) : batches[i].schema = batches[j].schema

(* C12: for every sequence of batches sharing one schema the encoding       *)
(* succeeds and the decoding of the encoded bytes gives the sequence back,  *)
(* schema and rows; the empty sequence encodes to no bytes, and no bytes    *)
(* decode to the empty sequence.                                            *)
C12_CodecRoundTrip ==
    /\ (last.op = "encoded" /\ OneSchema(last.batches)) => last.res.ok
    /\ (last.op = "encoded" /\ last.batches = <<>>) => last.res = Ok(<<>>)
    /\ (last.op = "decoded" /\ last.data = <<>>) => last.res = Ok(<<>>)
    /\ (last.op = "decoded" /\ OneSchema(last.batches)) => last.res = Ok(last.batches)

(* Two different batches of one schema, one without rows, have been encoded *)
(* and decoded                                                              *)
C12_Witness ==
    /\ last.op = "decoded"
    /\ Len(last.batches) = 2
    /\ last.batches[1].col = <<>> /\ last.batches[2].col = <<10, 20>>
    /\ last.batches[1].schema = "S2"
    /\ last.res = Ok(last.batches)

(* C13: the epoch deadline of an execution is the tick count its caller     *)
(* asked for: the guest is not interrupted on the deadline before that many *)
(* ticks, and once they have elapsed it executes nothing more.              *)
C13_DeadlineIsCallerTicks ==
    [][/\ (trapped = None /\ trapped' = Some("deadline")) => epoch >= ticks
       /\ (pc = "running" /\ epoch >= ticks) => executed' = executed]_vars

(* C14: with any fuel budget, an execution whose guest loops without        *)
(* calling a capability ends: run_component returns.                        *)
C14_LoopTerminates ==
    (pc = "start") ~> (pc = "done" /\ ret # None)

(* The looping guest has used up the largest budget and trapped on fuel *)
C14_Witness ==
    /\ pc = "done" /\ ret # None
    /\ trapped = Some("fuel")
    /\ fuel = MaxFuel /\ executed = MaxFuel

(* C15: when the epoch deadline passes while the guest is suspended in a    *)
(* generate call whose request is in flight, the execution is interrupted   *)
(* and run_component returns, whether or not the service ever answers.      *)
C15_DeadlineAbandonsRequest ==
    (pc = "running" /\ inflight # None /\ epoch >= EpochDeadline)
        ~> (pc = "done" /\ ret # None)

(* C16: at every moment the guest instances alive in all the executions    *)
(* running at once are at most the instance cap of 16.                      *)
C16_LiveInstancesWithinCap ==
    LiveInstances <= TotalComponentInstances

(* C17: a DuckStore attached to an execution is used by that execution only *)
(* while it runs: no two running executions hold the same store, and every  *)
(* operation issued on the store of a running execution is issued by it.    *)
C17_HandleExclusive ==
    /\ [](\A e1, e2 \in Execs :
            (e1 # e2 /\ execs[e1].pc = "running" /\ execs[e2].pc = "running"
               /\ execs[e1].duck # None) => execs[e1].duck # execs[e2].duck)
    /\ [][\A e \in Execs :
            (execs[e].pc = "running" /\ execs[e].duck # None /\ use' # use
               /\ use'.h = Unwrap(execs[e].duck)) => use'.who = e]_vars

(* Two executions run at once, each with a store, the caller has called     *)
(* both stores before, and the second execution has just called its own     *)
C17_Witness ==
    /\ execs[1].pc = "running" /\ execs[1].duck = Some("h1")
    /\ execs[2].pc = "running" /\ execs[2].duck = Some("h2")
    /\ use.who = 2 /\ use.h = "h2"

(* C18: when the engine creation or the module load fails, run_component    *)
(* returns an error and no Run Result, and nothing of the execution has     *)
(* happened: no guest instruction, no epoch ticker, no capability call, no  *)
(* store attached to a HostState.                                           *)
C18_EarlyFailureDoesNothing ==
    (pc = "done" /\ ret # None /\ ~Unwrap(ret).ok
       /\ Unwrap(ret).message \in {"engine", "load"}) =>
        /\ run_out = None
        /\ executed = 0 /\ store_fuel = 0
        /\ ticker = "none" /\ epoch = 0
        /\ calls = <<>> /\ cap_ret = NoRet /\ http_sent = 0 /\ inflight = None
        /\ state = HostState_new

(* The module load has failed in a call that was given a store *)
C18_Witness ==
    /\ pc = "done" /\ ret = Some(Err(0, "load"))
    /\ opts.duck # None

NonEmpty(tables, t) == t \in DOMAIN tables /\ tables[t].col # <<>>

C20_HasTablesNonEmpty ==
    (boot.op = "open_duck") =>
        (boot.has_tables <=>
            (NonEmpty(boot.before, legislation) /\ NonEmpty(boot.before, law_edges)))

----------------------------------------------------------------------------
(* C21: when the service answers a generate request with a non-success     *)
(* status, generate fails with code 2 and its message carries the status    *)
(* and only a bounded prefix of the body: the message is never longer than  *)
(* its fixed head, the status and PrefixCap characters of body.             *)
C21_ErrorMessageBounded ==
    (last.op = "response" /\ last.resp.send /\ last.resp.read
        /\ ~is_success(last.resp.status)) =>
        /\ ~cap_ret.res.ok /\ cap_ret.res.code = 2
        /\ Len(cap_ret.res.message)
              <= Len("Claude API error (" \o StatusText(last.resp.status) \o "): ")
                   + PrefixCap

(* C22: on a success status generate returns a response only if the parsed *)
(* body has both content[0].text and usage.output_tokens; when either is    *)
(* absent, or the body is not JSON, it fails with code 3.                   *)
C22_ResponseNeedsTextAndTokens ==
    (last.op = "response" /\ last.resp.send /\ last.resp.read
        /\ is_success(last.resp.status)) =>
        IF last.resp.json /\ last.resp.text # None /\ last.resp.tokens # None
        THEN cap_ret.res.ok
        ELSE ~cap_ret.res.ok /\ cap_ret.res.code = 3

----------------------------------------------------------------------------
(* C23: within one execution the audit records are totally ordered by      *)
(* their timestamps and that order is the append order: of two records the  *)
(* one appended earlier has the strictly smaller timestamp.                 *)
C23_TimestampsStrictlyIncrease ==
    \A i, j \in 1..Len(state.audit_entries) :
        i < j => state.audit_entries[i].timestamp < state.audit_entries[j].timestamp

----------------------------------------------------------------------------
(* A key of three 3-digit segments joined by dots *)
KeyShape(k) ==
    /\ Len(k) = 11
    /\ k[4] = ChDot /\ k[8] = ChDot
    /\ \A i \in {1, 2, 3, 5, 6, 7, 9, 10, 11} : is_ascii_digit(k[i])

(* C24: the keys of normalize_provision recover document order: for two    *)
(* provision numbers with base numbers m < n the key of the first is        *)
(* lexicographically smaller, and every key is three 3-digit segments       *)
(* joined by dots.                                                          *)
C24_KeysSortByBase ==
    last.op = "keys" =>
        /\ KeyShape(last.key_a) /\ KeyShape(last.key_b)
        /\ base_of(last.a) < base_of(last.b) => str_lt(last.key_a, last.key_b)

(* C25: on one base number every Z-prefix group ZA..ZZ sorts strictly      *)
(* before every plain letter suffix A..Z: key(nZx) < key(ny).               *)
C25_ZPrefixBeforePlain ==
    \A n \in Bases, x \in 1..26, y \in 1..26 :
        (/\ last.op = "keys"
         /\ last.a = Decimal(n) \o <<ChZ, Letter(x)>>
         /\ last.b = Decimal(n) \o <<Letter(y)>>) => str_lt(last.key_a, last.key_b)

----------------------------------------------------------------------------
(* The run met no failure: every store call succeeded and the service       *)
(* answered every generate with a text that parses as a PolishedEntry.      *)
AllCallsSucceed ==
    \A k \in 1..Len(guest.trace) :
        /\ guest.trace[k].outcome.fail = "none"
        /\ guest_generate(state, guest.trace[k].outcome.resp).ok
        /\ parse_entry(guest_generate(state, guest.trace[k].outcome.resp).val.text) # None

PolishErrors == {k \in 1..Len(state.audit_entries) :
                    state.audit_entries[k].event_type = "polish-error"}

(* C26: one run of the drrp-polisher processes each annotation that was    *)
(* unpolished at its start exactly once: with n unpolished annotations and  *)
(* every inference and store call succeeding, the run ends with all n       *)
(* marked polished, n rows added to polished_drrp and the summary           *)
(* "Polished n/n annotations (0 errors, ...)".                              *)
C26_PolishesEveryAnnotationOnce ==
    (guest.pos = "done" /\ guest.count > 0 /\ AllCallsSucceed) =>
        LET n == count_unpolished(Unwrap(guest.before))
            db == Unwrap(state.duck)
        IN  /\ Unpolished(db) = {}
            /\ Len(Unwrap(db.polished_drrp))
                 = Len(Unwrap(Unwrap(guest.before).polished_drrp)) + n
            /\ guest.output # None /\ Unwrap(guest.output).ok
            /\ Unwrap(guest.output).val.polished = n
            /\ Unwrap(guest.output).val.count = n
            /\ Unwrap(guest.output).val.errors = 0

(* C27: in every run of the drrp-polisher that reaches the batch loop the  *)
(* reported polished count plus the reported error count is the number of   *)
(* unpolished annotations counted at the start, each failed annotation      *)
(* leaves exactly one polish-error audit record, and a failed inference     *)
(* leaves the annotation unpolished and adds no polished_drrp row.          *)
C27_PolishCountsAddUp ==
    /\ []((guest.pos = "done" /\ guest.count > 0) =>
            /\ guest.output # None /\ Unwrap(guest.output).ok
            /\ Unwrap(guest.output).val.polished + Unwrap(guest.output).val.errors
                 = count_unpolished(Unwrap(guest.before))
            /\ Cardinality(PolishErrors) = Unwrap(guest.output).val.errors
            /\ Cardinality(PolishErrors)
                 = Cardinality({k \in 1..Len(guest.trace) : ~guest.trace[k].ok}))
    /\ [][(/\ guest.pos = "loop" /\ guest'.i = guest.i + 1
           /\ guest'.trace[Len(guest'.trace)].outcome.fail # "query"
           /\ select_unpolished(Unwrap(state.duck), guest.i) # None
           /\ ~guest_generate(state, guest'.trace[Len(guest'.trace)].outcome.resp).ok) =>
               /\ state'.duck = state.duck
               /\ guest'.errors = guest.errors + 1
               /\ guest'.polished = guest.polished]_vars

C27_Witness ==
    /\ guest.pos = "done" /\ guest.count >= 2
    /\ guest.polished >= 1 /\ guest.errors >= 1
    /\ \E k \in 1..Len(guest.trace) :
          /\ ~guest.trace[k].ok
          /\ ~guest_generate(state, guest.trace[k].outcome.resp).ok
    /\ Unpolished(Unwrap(state.duck)) # {}

----------------------------------------------------------------------------
(* The rows of a sequence of batches, in order *)
RECURSIVE ConcatCols(_)
ConcatCols(batches) ==
    IF batches = <<>> THEN <<>> ELSE Head(batches).col \o ConcatCols(Tail(batches))

(* C28: insert is applied batch by batch without rollback: when            *)
(* insert-batch fails on the k-th decoded batch insert returns code 3, the  *)
(* rows of the batches 1..k-1 remain in the table and no batch after k is   *)
(* attempted; when the payload does not decode insert returns code 2 and    *)
(* the store is unchanged.                                                  *)
C28_InsertNoRollback ==
    (last.op = "insert" /\ last.before.duck # None) =>
        LET dec == decode_ipc(last.data)
            before == Unwrap(last.before.duck)
            after == Unwrap(state.duck)
        IN  IF ~dec.ok
            THEN ~cap_ret.res.ok /\ cap_ret.res.code = 2 /\ state = last.before
            ELSE cap_ret.res.ok \/
                 /\ cap_ret.res.code = 3
                 /\ \E k \in 1..Len(dec.val) :
                       /\ ~insert_batch(after, last.table, dec.val[k]).ok
                       /\ Len(last.sqls) <= k
                       /\ DOMAIN after = DOMAIN before
                       /\ \A t \in DOMAIN before :
                            after[t].col =
                               IF t = last.table
                               THEN before[t].col \o ConcatCols(SubSeq(dec.val, 1, k - 1))
                               ELSE before[t].col

C28_Witness ==
    /\ last.op = "insert" /\ last.before.duck # None
    /\ decode_ipc(last.data).ok /\ Len(decode_ipc(last.data).val) = 2
    /\ ~cap_ret.res.ok /\ cap_ret.res.code = 3
    /\ Len(last.sqls) = 2
    /\ Len(Unwrap(state.duck)[last.table].col)
         = Len(Unwrap(last.before.duck)[last.table].col) + 1

----------------------------------------------------------------------------
(* C29: the Table Store handle survives the execution it was attached to:  *)
(* after run_component has returned, the caller still holds the handle and  *)
(* can observe through it what the guest wrote; no handle is dropped with   *)
(* an execution.                                                            *)
C29_StoreSurvivesRun ==
    \A h \in Handles :
        (\A e \in Execs : execs[e].duck # Some(h)) => owner[h] = Caller

----------------------------------------------------------------------------
(* C30: extract_i64 and extract_string are total: for every byte sequence  *)
(* they return a value or None, never indexing outside the buffer and       *)
(* never overflowing a position computation.                                *)
C30_ExtractorsTotal ==
    cap_ret.op \in {"extract_i64", "extract_string"} =>
        cap_ret.res.kind \in {"some", "none"}

====
